---- MODULE Spec2Model ----
(***************************************************************************)
(* Model of terraform-provider-forward:                                    *)
(*   - internal/sdk/client.go: NewClient's normalisation of the retry      *)
(*     settings and the retry/backoff loop of Client.Do;                   *)
(*   - internal/provider/snapshot_resource.go: SnapshotResource.Create and *)
(*     its polling loop waitForProcessed;                                  *)
(*   - internal/provider/provider.go: ForwardProvider.Configure.           *)
(* Each part has its own specification (SpecDo, SpecSnapshot,              *)
(* SpecConfigure); the variables of the other parts stay at their idle     *)
(* values.                                                                 *)
(***************************************************************************)
EXTENDS Integers, Sequences, FiniteSets, TLC

VARIABLES
    \* ---- Client.Do (internal/sdk/client.go) ----
    maxRetries,   \* Client.maxRetries, as NewClient stored it
    retryDelay,   \* Client.retryDelay, an int64 of nanoseconds (set of 1-bits)
    method,       \* req.Method; a POST carries a body with GetBody set
    pc,           \* position of the one call to Do: "attempt", "select", "done"
    attempt,      \* Do's local attempt
    lastErr,      \* Do's local lastErr
    result,       \* what Do returned: [resp, err]
    ctxErr,       \* req.Context().Err(): "none", "canceled", "deadline"
    timerFired,   \* the channel of time.After(backoff) is ready
    outcomes,     \* history: what each call of httpClient.Do ended in
    waits,        \* history: the backoff computed before each retry
    bodyResets,   \* history: number of req.GetBody() calls
    \* ---- SnapshotResource.Create (internal/provider/snapshot_resource.go) ----
    configured,   \* r.providerData != nil
    plan,         \* req.Plan: network_id, wait_for_processed, the two durations
    sPc,          \* position of Create: "start", "wait", "done", "panic"
    sCtx,         \* ctx.Err() of the Create call
    creates,      \* history: calls of CreateSnapshot made by Create
    created,      \* what CreateSnapshot returned
    model,        \* the plan struct as Create fills it in: id and state
    tfState,      \* resp.State, once set
    diag,         \* summary of the error diagnostic added, or "none"
    clock,        \* seconds since waitForProcessed made its ticker and timer
    tickReady,    \* ticker.C holds a tick (a channel of capacity 1)
    lateTicks,    \* ticks delivered after the timeout timer fired
    polls,        \* history: calls of GetSnapshot made by waitForProcessed
    lastPoll,     \* history: what the last of them returned
    sCalls,       \* history: the SDK accessors Create called, in order
    waitErr,      \* what waitForProcessed returned: "running", "nil" or an error
    \* ---- ForwardProvider.Configure (internal/provider/provider.go) ----
    cPc,          \* position of Configure: "start", "done"
    config,       \* req.Config: base_url, api_key, network_id, insecure
    env,          \* the process environment: name -> value
    envReads,     \* history: the names passed to os.Getenv
    clientConfig, \* history: the sdk.Config passed to NewClient
    providerData, \* resp.ResourceData and resp.DataSourceData
    cDiag,        \* summary of the error diagnostic added, or "none"
    \* ---- Client.NewRequest (internal/sdk/client.go) ----
    nrPc,         \* position of NewRequest: "start", "done"
    nrClient,     \* the Client: baseURL (as NewClient parsed it), apiKey, userAgent
    nrArgs,       \* the arguments: method, path, body (nil or not)
    request,      \* the *http.Request returned, with the error
    \* ---- the typed accessors (internal/sdk/*.go) ----
    aPc,          \* position of the accessor: "start", "do", "done"
    accessor,     \* which accessor is called
    aArgs,        \* its identifier arguments
    aPath,        \* the path it passed to NewRequest, <<>> before that
    aBody,        \* the body of the response Do returned: its text, whether it decodes
    aResult,      \* what it returned: [value, err]
    \* ---- resources and data sources (internal/provider/*.go) ----
    rPc,          \* "new": not configured yet; "ready": Configure has run
    target,       \* the resource or data source the behaviour is about
    rData,        \* r.providerData / d.providerData (set = non-nil)
    remote,       \* the object(s) held by the Forward server
    tfSt,         \* the Terraform state of the resource or data source
    hOp,          \* the last operation Terraform called, or "none"
    hIn,          \* the request of that operation (plan, config, import ID)
    hPrev,        \* tfSt before that operation
    hDiag,        \* summary of the error diagnostic it added, or "none"
    hReqs,        \* history: calls of Client.Do the last operation made
    hSteps        \* number of operations called so far

doVars == <<maxRetries, retryDelay, method, pc, attempt, lastErr, result,
            ctxErr, timerFired, outcomes, waits, bodyResets>>

snapVars == <<configured, plan, sPc, sCtx, creates, created, model, tfState, diag,
              clock, tickReady, lateTicks, polls, lastPoll, sCalls, waitErr>>

cfgVars == <<cPc, config, env, envReads, clientConfig, providerData, cDiag>>

reqVars == <<nrPc, nrClient, nrArgs, request>>

sdkVars == <<aPc, accessor, aArgs, aPath, aBody, aResult>>

provVars == <<rPc, target, rData, remote, tfSt, hOp, hIn, hPrev, hDiag, hReqs,
              hSteps>>

vars == <<doVars, snapVars, cfgVars, reqVars, sdkVars, provVars>>

----------------------------------------------------------------------------
(* Bounds of the model.                                                    *)

\* Largest Config.MaxRetries the model draws.
MaxRetriesBound == 3

----------------------------------------------------------------------------
(* 64-bit integers.  time.Duration is an int64; TLC's integers are too     *)
(* narrow for nanosecond counts, so an int64 is the set of the positions   *)
(* of its 1-bits in two's complement (bit 63 is the sign).                 *)

IntWidth == 64

BitPositions == 0..(IntWidth - 1)

\* The int64 holding the small non-negative number n.
BitsOf(n) == {i \in 0..30 : (n \div (2 ^ i)) % 2 = 1}

\* d <= 0 for an int64 d.
IsNonPositive(d) == d = {} \/ (IntWidth - 1) \in d

\* time.Duration(1<<uint(s)): a shift by the width or more gives 0.
ShiftOne(s) == IF s < IntWidth THEN {s} ELSE {}

\* a * f for an int64 a and a factor f that is 0 or a power of two:
\* Go's multiplication wraps around, keeping the low 64 bits.
MulWrap(a, f) ==
    IF f = {} THEN {}
    ELSE LET s == CHOOSE x \in f : TRUE
         IN  {p + s : p \in a} \cap BitPositions

\* The mathematical product a * 2^s (no width): the 1-bits of a moved up by s.
ExactShift(a, s) == {p + s : p \in a}

\* An int64 pattern denotes the mathematical number with 1-bits `exact`.
DenotesExactly(pattern, exact) ==
    /\ (IntWidth - 1) \notin pattern
    /\ pattern = exact

----------------------------------------------------------------------------
(* NewClient: the retry settings.                                          *)

DefaultMaxRetries == 3

\* 500 * time.Millisecond, in nanoseconds.
DefaultRetryDelay == BitsOf(500 * 1000000)

\* Config.RetryDelay values drawn: 0 (unset), 1ns, 2^62 ns, and a negative one.
RetryDelayInputs == {{}, {0}, {62}, {63}, BitsOf(5 * 1000000)}

NormalizeMaxRetries(m) ==
    LET m1 == IF m < 0 THEN 0 ELSE m
    IN  IF m1 = 0 THEN DefaultMaxRetries ELSE m1

NormalizeRetryDelay(d) == IF IsNonPositive(d) THEN DefaultRetryDelay ELSE d

----------------------------------------------------------------------------
(* Client.Do.                                                              *)

\* Status codes the server answers with.
Statuses == {200, 201, 202, 204, 404, 429, 500, 501, 599}

Methods == {"GET", "POST"}

NoErr == [kind |-> "nil", code |-> 0, cause |-> "none", wrapped |-> FALSE]

\* fmt.Errorf("received status %d", resp.StatusCode)
StatusErr(s) == [kind |-> "status", code |-> s, cause |-> "none", wrapped |-> FALSE]

\* An error of the transport (connection refused, reset, client timeout).
TransportErr == [kind |-> "transport", code |-> 0, cause |-> "none", wrapped |-> FALSE]

\* req.Context().Err() itself (wrapped = FALSE), or the *url.Error that
\* httpClient.Do wraps around it (wrapped = TRUE).
CtxErr(cause, w) == [kind |-> "ctx", code |-> 0, cause |-> cause, wrapped |-> w]

\* errors.Is(err, context.Canceled): url.Error unwraps to its cause.
IsCanceled(err) == err.kind = "ctx" /\ err.cause = "canceled"

NilResp == [status |-> 0, idx |-> 0]

\* The response of the idx-th call of httpClient.Do.
Resp(s, idx) == [status |-> s, idx |-> idx]

shouldRetryStatus_Drop500(status) ==
    \/ status = 429
    \/ status >= 502

shouldRetryStatus_ClientErrors(status) ==
    \/ status = 429
    \/ status >= 400 /\ status # 501

shouldRetryStatus(status) ==
    \/ status = 429
    \/ status >= 500 /\ status # 501

RetriesExhausted_OffByOne(a, m) == a > m

\* if attempt >= c.maxRetries { return nil, lastErr }
RetriesExhausted(a, m) == a >= m

\* backoff := c.retryDelay * time.Duration(1<<uint(attempt-1))
Backoff(delay, a) == MulWrap(delay, ShiftOne(a - 1))

\* What one call of httpClient.Do can end in.  A context that is already
\* done makes the transport return its error without sending anything.
AttemptOutcomes ==
    IF ctxErr # "none"
    THEN {[kind |-> "ctx", code |-> 0]}
    ELSE {[kind |-> "status", code |-> s] : s \in Statuses}
         \cup {[kind |-> "transport", code |-> 0]}

OutcomeErr(o) ==
    CASE o.kind = "status"    -> StatusErr(o.code)
      [] o.kind = "transport" -> TransportErr
      [] OTHER                -> CtxErr(ctxErr, TRUE)

\* One iteration of the loop up to the select: reset the body, call
\* httpClient.Do, return the response or the last error, or compute the
\* backoff and enter the select.
DoAttempt ==
    /\ pc = "attempt"
    /\ \E o \in AttemptOutcomes :
        LET n       == Len(outcomes) + 1
            resets  == IF attempt > 0 /\ method = "POST"
                       THEN bodyResets + 1 ELSE bodyResets
            err     == OutcomeErr(o)
        IN
        /\ outcomes' = Append(outcomes, o)
        /\ bodyResets' = resets
        /\ IF o.kind = "status" /\ ~shouldRetryStatus(o.code)
           THEN /\ pc' = "done"
                /\ result' = [resp |-> Resp(o.code, n), err |-> NoErr]
                /\ UNCHANGED <<attempt, lastErr, timerFired, waits>>
           ELSE /\ lastErr' = err
                /\ IF RetriesExhausted(attempt, maxRetries)
                   THEN /\ pc' = "done"
                        /\ result' = [resp |-> NilResp, err |-> err]
                        /\ UNCHANGED <<attempt, timerFired, waits>>
                   ELSE /\ attempt' = attempt + 1
                        /\ waits' = Append(waits, Backoff(retryDelay, attempt + 1))
                        /\ timerFired' = IsNonPositive(Backoff(retryDelay, attempt + 1))
                        /\ pc' = "select"
                        /\ UNCHANGED result
    /\ UNCHANGED <<maxRetries, retryDelay, method, ctxErr>>
    /\ UNCHANGED <<snapVars, cfgVars, reqVars, sdkVars, provVars>>

\* The backoff elapses: time.After's channel becomes ready.
TimerFire ==
    /\ pc = "select"
    /\ ~timerFired
    /\ timerFired' = TRUE
    /\ UNCHANGED <<maxRetries, retryDelay, method, pc, attempt, lastErr, result,
                   ctxErr, outcomes, waits, bodyResets>>
    /\ UNCHANGED <<snapVars, cfgVars, reqVars, sdkVars, provVars>>

\* case <-time.After(backoff): go round the loop again.
SelectTimer ==
    /\ pc = "select"
    /\ timerFired
    /\ pc' = "attempt"
    /\ UNCHANGED <<maxRetries, retryDelay, method, attempt, lastErr, result,
                   ctxErr, timerFired, outcomes, waits, bodyResets>>
    /\ UNCHANGED <<snapVars, cfgVars, reqVars, sdkVars, provVars>>

SelectDoneResult_LastErr == [resp |-> NilResp, err |-> lastErr]

\* return nil, req.Context().Err()
SelectDoneResult == [resp |-> NilResp, err |-> CtxErr(ctxErr, FALSE)]

\* case <-req.Context().Done()
SelectDone ==
    /\ pc = "select"
    /\ ctxErr # "none"
    /\ pc' = "done"
    /\ result' = SelectDoneResult
    /\ UNCHANGED <<maxRetries, retryDelay, method, attempt, lastErr, ctxErr,
                   timerFired, outcomes, waits, bodyResets>>
    /\ UNCHANGED <<snapVars, cfgVars, reqVars, sdkVars, provVars>>

\* The caller cancels the request's context, or its deadline passes, while
\* Do is running.
ContextEnds ==
    /\ pc # "done"
    /\ ctxErr = "none"
    /\ \E c \in {"canceled", "deadline"} : ctxErr' = c
    /\ UNCHANGED <<maxRetries, retryDelay, method, pc, attempt, lastErr, result,
                   timerFired, outcomes, waits, bodyResets>>
    /\ UNCHANGED <<snapVars, cfgVars, reqVars, sdkVars, provVars>>

\* Every result a call of Do can return under a context in state ctx: a
\* response with a status Do does not retry, or no response and the last
\* error (retries exhausted, or the context done).
DoFinalResults(ctx) ==
    IF ctx # "none"
    THEN {[resp |-> NilResp, err |-> CtxErr(ctx, w)] : w \in BOOLEAN}
    ELSE {[resp |-> Resp(s, 1), err |-> NoErr] :
              s \in {x \in Statuses : ~shouldRetryStatus(x)}}
         \cup {[resp |-> NilResp, err |-> StatusErr(s)] :
              s \in {x \in Statuses : shouldRetryStatus(x)}}
         \cup {[resp |-> NilResp, err |-> TransportErr]}

----------------------------------------------------------------------------
(* Values of the Terraform plugin framework and of package strings.        *)

\* types.String / types.Bool / types.Int64: null, unknown or a known value.
TFNull == [isNull |-> TRUE, isUnknown |-> FALSE, value |-> ""]

TFUnknown == [isNull |-> FALSE, isUnknown |-> TRUE, value |-> ""]

TFStr(v) == [isNull |-> FALSE, isUnknown |-> FALSE, value |-> v]

TFBoolNull == [isNull |-> TRUE, isUnknown |-> FALSE, value |-> FALSE]

TFBool(b) == [isNull |-> FALSE, isUnknown |-> FALSE, value |-> b]

TFIntNull == [isNull |-> TRUE, isUnknown |-> FALSE, value |-> 0]

TFInt(n) == [isNull |-> FALSE, isUnknown |-> FALSE, value |-> n]

\* strings.TrimSpace, on the strings the model draws.
TrimSpace(v) == IF v \in {"", " "} THEN "" ELSE v

\* strings.ToLower, on the strings the model draws.
ToLower(v) ==
    CASE v = "PROCESSED"  -> "processed"
      [] v = "Processed"  -> "processed"
      [] v = "PROCESSING" -> "processing"
      [] v = "FAILED"     -> "failed"
      [] v = "Failed"     -> "failed"
      [] v = "ORG"        -> "org"
      [] v = "FWD"        -> "fwd"
      [] OTHER            -> v

\* strings.EqualFold, on the strings the model draws.
EqualFold(a, b) == ToLower(a) = ToLower(b)

----------------------------------------------------------------------------
(* The snapshot accessors of the SDK (internal/sdk/snapshots.go).          *)

SnapshotIDs == {"snap-1", ""}

SnapshotStates == {"PROCESSING", "PROCESSED", "processed", "Processed",
                   "FAILED", "failed", "", " "}

NetworkIDs == {"net-1", " "}

\* Response bodies: a snapshot object, or text that is no JSON and may hold
\* the words "not found".
Bodies ==
    {[json |-> TRUE, id |-> i, state |-> st, notFound |-> FALSE] :
        i \in SnapshotIDs, st \in SnapshotStates}
    \cup {[json |-> FALSE, id |-> "", state |-> "", notFound |-> n] :
        n \in BOOLEAN}

\* An error of an accessor; notFound: its text holds "not found" in some case.
SdkErr(kind, nf) == [kind |-> kind, notFound |-> nf]

NoSdkErr == SdkErr("nil", FALSE)

SnapshotOk(i, st) == [ok |-> TRUE, id |-> i, state |-> st, err |-> NoSdkErr]

SnapshotFail(e) == [ok |-> FALSE, id |-> "", state |-> "", err |-> e]

NotCalled == SnapshotFail(SdkErr("not called", FALSE))

\* Client.CreateSnapshot, given what Do returns and the response's body.
CreateSnapshot(networkID, doRes, body) ==
    IF TrimSpace(networkID) = ""
    THEN SnapshotFail(SdkErr("networkID must be provided", FALSE))
    ELSE IF doRes.err # NoErr
    THEN SnapshotFail(SdkErr("execute snapshot create request", FALSE))
    ELSE IF doRes.resp.status \notin {200, 202, 201}
    THEN SnapshotFail(SdkErr("unexpected status creating snapshot", body.notFound))
    ELSE IF ~body.json
    THEN SnapshotFail(SdkErr("decode snapshot create response", FALSE))
    ELSE SnapshotOk(body.id, body.state)

\* Client.GetSnapshot, given what Do returns and the response's body.
GetSnapshot(networkID, snapshotID, doRes, body) ==
    IF TrimSpace(networkID) = "" \/ TrimSpace(snapshotID) = ""
    THEN SnapshotFail(SdkErr("networkID and snapshotID must be provided", FALSE))
    ELSE IF doRes.err # NoErr
    THEN SnapshotFail(SdkErr("execute snapshot get request", FALSE))
    ELSE IF doRes.resp.status = 404
    THEN SnapshotFail(SdkErr("snapshot not found", TRUE))
    ELSE IF doRes.resp.status # 200
    THEN SnapshotFail(SdkErr("unexpected status retrieving snapshot", body.notFound))
    ELSE IF ~body.json
    THEN SnapshotFail(SdkErr("decode snapshot response", FALSE))
    ELSE SnapshotOk(body.id, body.state)

----------------------------------------------------------------------------
(* SnapshotResource.Create and waitForProcessed.                           *)

\* Largest poll_interval_seconds and timeout_seconds the model draws, and the
\* number of ticks the model lets pass after the timeout timer fired.
MaxPollInterval == 2

MaxTimeout == 3

MaxLateTicks == 2

\* strings.Contains(strings.ToLower(err.Error()), "not found")
MentionsNotFound(err) == err.notFound

stringOrNullValue(v) == IF TrimSpace(v) = "" THEN TFNull ELSE TFStr(v)

defaultInt(v, fallback) == IF v.isNull \/ v.isUnknown THEN fallback ELSE v.value

WantsWait_Always(w) == TRUE

\* wait := !plan.WaitForProcessed.IsNull() && plan.WaitForProcessed.ValueBool()
WantsWait(w) == ~w.isNull /\ w.value

IsProcessed_Prefix(st) == ToLower(st) \in {"processed", "processing"}

\* strings.EqualFold(snapshot.State, "PROCESSED")
IsProcessed(st) == EqualFold(st, "PROCESSED")

\* strings.EqualFold(snapshot.State, "FAILED")
IsFailed(st) == EqualFold(st, "FAILED")

\* The arguments Create passes to waitForProcessed, in seconds.
Interval == defaultInt(plan.pollInterval, 10)

Timeout == defaultInt(plan.timeout, 600)

NoState == [written |-> FALSE, id |-> TFNull, state |-> TFNull]

\* resp.State.Set(ctx, &plan)
Written(m) == [written |-> TRUE, id |-> m.id, state |-> m.state]

\* Create up to its first blocking point: the create call, then either the
\* state is written, or waitForProcessed makes its ticker and its timer and
\* blocks in the select.  time.NewTicker panics on a non-positive interval.
CreateBegin ==
    /\ sPc = "start"
    /\ IF ~configured
       THEN /\ diag' = "Unconfigured Provider"
            /\ sPc' = "done"
            /\ UNCHANGED <<creates, created, model, tfState, clock, tickReady,
                           waitErr, sCalls>>
       ELSE \E doRes \in DoFinalResults(sCtx), body \in Bodies :
            LET r == CreateSnapshot(plan.networkID, doRes, body)
                m == [id |-> TFStr(r.id), state |-> stringOrNullValue(r.state)]
            IN
            /\ creates' = creates + 1
            /\ sCalls' = Append(sCalls, "CreateSnapshot")
            /\ created' = r
            /\ IF ~r.ok
               THEN /\ diag' = "Error creating snapshot"
                    /\ sPc' = "done"
                    /\ UNCHANGED <<model, tfState, clock, tickReady, waitErr>>
               ELSE /\ model' = m
                    /\ IF WantsWait(plan.wait)
                       THEN IF Interval <= 0
                            THEN /\ sPc' = "panic"
                                 /\ UNCHANGED <<tfState, diag, clock, tickReady, waitErr>>
                            ELSE /\ sPc' = "wait"
                                 /\ clock' = 0
                                 /\ tickReady' = FALSE
                                 /\ waitErr' = "running"
                                 /\ UNCHANGED <<tfState, diag>>
                       ELSE /\ tfState' = Written(m)
                            /\ sPc' = "done"
                            /\ UNCHANGED <<diag, clock, tickReady, waitErr>>
    /\ UNCHANGED <<configured, plan, sCtx, lateTicks, polls, lastPoll>>
    /\ UNCHANGED <<doVars, cfgVars, reqVars, sdkVars, provVars>>

\* Time passes up to the next instant at which the ticker ticks or the
\* timeout timer fires.  A tick that finds ticker.C full is dropped.
WaitAdvanceTime ==
    /\ sPc = "wait"
    /\ clock < Timeout \/ lateTicks < MaxLateTicks
    /\ LET nextTick == ((clock \div Interval) + 1) * Interval
           next     == IF clock < Timeout /\ Timeout < nextTick
                       THEN Timeout ELSE nextTick
       IN
       /\ clock' = next
       /\ tickReady' = IF next = nextTick THEN TRUE ELSE tickReady
       /\ lateTicks' = IF next = nextTick /\ next >= Timeout
                       THEN lateTicks + 1 ELSE lateTicks
    /\ UNCHANGED <<configured, plan, sPc, sCtx, creates, created, model, tfState,
                   diag, polls, lastPoll, sCalls, waitErr>>
    /\ UNCHANGED <<doVars, cfgVars, reqVars, sdkVars, provVars>>

\* case <-ticker.C: one poll.  Create writes the state when the wait ends
\* with nil and adds the diagnostic when it ends with an error.
WaitTick ==
    /\ sPc = "wait"
    /\ tickReady
    /\ tickReady' = FALSE
    /\ polls' = polls + 1
    /\ sCalls' = Append(sCalls, "GetSnapshot")
    /\ \E doRes \in DoFinalResults(sCtx), body \in Bodies :
        LET r == GetSnapshot(plan.networkID, model.id.value, doRes, body)
            m == [model EXCEPT !.state = stringOrNullValue(r.state)]
        IN
        /\ lastPoll' = r
        /\ IF ~r.ok
           THEN IF MentionsNotFound(r.err)
                THEN /\ waitErr' = "snapshot not found"
                     /\ diag' = "Error waiting for snapshot"
                     /\ sPc' = "done"
                     /\ UNCHANGED <<model, tfState>>
                ELSE UNCHANGED <<waitErr, diag, sPc, model, tfState>>
           ELSE /\ model' = m
                /\ IF IsProcessed(r.state)
                   THEN /\ waitErr' = "nil"
                        /\ tfState' = Written(m)
                        /\ sPc' = "done"
                        /\ UNCHANGED diag
                   ELSE IF IsFailed(r.state)
                   THEN /\ waitErr' = "snapshot failed"
                        /\ diag' = "Error waiting for snapshot"
                        /\ sPc' = "done"
                        /\ UNCHANGED tfState
                   ELSE UNCHANGED <<waitErr, diag, sPc, tfState>>
    /\ UNCHANGED <<configured, plan, sCtx, creates, created, clock, lateTicks>>
    /\ UNCHANGED <<doVars, cfgVars, reqVars, sdkVars, provVars>>

WaitTimedOut_DeletesSnapshot ==
    /\ sPc = "wait"
    /\ clock >= Timeout
    /\ waitErr' = "snapshot processing timed out"
    /\ diag' = "Error waiting for snapshot"
    /\ sPc' = "done"
    /\ sCalls' = Append(sCalls, "DeleteSnapshot")
    /\ UNCHANGED <<configured, plan, sCtx, creates, created, model, tfState,
                   clock, tickReady, lateTicks, polls, lastPoll>>
    /\ UNCHANGED <<doVars, cfgVars, reqVars, sdkVars, provVars>>

\* case <-timeoutChan
WaitTimedOut ==
    /\ sPc = "wait"
    /\ clock >= Timeout
    /\ waitErr' = "snapshot processing timed out"
    /\ diag' = "Error waiting for snapshot"
    /\ sPc' = "done"
    /\ UNCHANGED <<configured, plan, sCtx, creates, created, model, tfState,
                   clock, tickReady, lateTicks, polls, lastPoll, sCalls>>
    /\ UNCHANGED <<doVars, cfgVars, reqVars, sdkVars, provVars>>

\* case <-ctx.Done()
WaitCtxDone ==
    /\ sPc = "wait"
    /\ sCtx # "none"
    /\ waitErr' = IF sCtx = "canceled" THEN "context canceled"
                  ELSE "context deadline exceeded"
    /\ diag' = "Error waiting for snapshot"
    /\ sPc' = "done"
    /\ UNCHANGED <<configured, plan, sCtx, creates, created, model, tfState,
                   clock, tickReady, lateTicks, polls, lastPoll, sCalls>>
    /\ UNCHANGED <<doVars, cfgVars, reqVars, sdkVars, provVars>>

\* Terraform cancels the Create call, or its deadline passes.
CreateContextEnds ==
    /\ sPc \in {"start", "wait"}
    /\ sCtx = "none"
    /\ \E c \in {"canceled", "deadline"} : sCtx' = c
    /\ UNCHANGED <<configured, plan, sPc, creates, created, model, tfState, diag,
                   clock, tickReady, lateTicks, polls, lastPoll, sCalls, waitErr>>
    /\ UNCHANGED <<doVars, cfgVars, reqVars, sdkVars, provVars>>

----------------------------------------------------------------------------
(* ForwardProvider.Configure and NewClient.                                *)

envBaseURL == "FORWARD_BASE_URL"

envAPIKeyPrimary == "FORWARD_API_KEY"

envAPIKeyLegacy == "FORWARD_API_TOKEN"

envNetworkID == "FORWARD_NETWORK_ID"

EnvNames == {envBaseURL, envAPIKeyPrimary, envAPIKeyLegacy, envNetworkID}

\* StringValue.ValueString(): "" for a null and for an unknown value.
ValueString(v) == IF v.isNull \/ v.isUnknown THEN "" ELSE v.value

\* BoolValue.ValueBool(): false for a null and for an unknown value.
ValueBool(v) == IF v.isNull \/ v.isUnknown THEN FALSE ELSE v.value

\* x := ""; if !v.IsNull() { x = v.ValueString() }
ConfiguredString(v) == IF ~v.isNull THEN ValueString(v) ELSE ""

ResolvedBaseURL_EnvFirst(c, e) ==
    IF e[envBaseURL] # "" THEN e[envBaseURL] ELSE ConfiguredString(c.baseURL)

\* baseURL, after the fallback to os.Getenv(envBaseURL)
ResolvedBaseURL(c, e) ==
    IF ConfiguredString(c.baseURL) = "" THEN e[envBaseURL]
    ELSE ConfiguredString(c.baseURL)

\* apiKey, after the fallbacks to FORWARD_API_KEY and then FORWARD_API_TOKEN
ResolvedAPIKey(c, e) ==
    LET k0 == ConfiguredString(c.apiKey)
        k1 == IF k0 = "" THEN e[envAPIKeyPrimary] ELSE k0
    IN  IF k1 = "" THEN e[envAPIKeyLegacy] ELSE k1

\* networkID, after the fallback to os.Getenv(envNetworkID)
ResolvedNetworkID(c, e) ==
    IF ConfiguredString(c.networkID) = "" THEN e[envNetworkID]
    ELSE ConfiguredString(c.networkID)

\* The names Configure passes to os.Getenv.
EnvLookups(c, e) ==
    (IF ConfiguredString(c.baseURL) = "" THEN {envBaseURL} ELSE {})
    \cup (IF ConfiguredString(c.apiKey) = "" THEN {envAPIKeyPrimary} ELSE {})
    \cup (IF ConfiguredString(c.apiKey) = "" /\ e[envAPIKeyPrimary] = ""
          THEN {envAPIKeyLegacy} ELSE {})
    \cup (IF ConfiguredString(c.networkID) = "" THEN {envNetworkID} ELSE {})

\* Base URLs drawn for the configuration and for the environment.
ConfigBaseURLs == {"https://cfg.example/", "cfg.example"}

EnvBaseURLs == {"https://env.example", "://env.example"}

\* url.Parse succeeds: "://env.example" has no protocol scheme to parse.
URLParses(u) == u # "://env.example"

\* parsed.Scheme, on the URLs the model draws.
URLScheme(u) ==
    IF u \in {"https://cfg.example/", "https://cfg.example", "https://env.example"}
    THEN "https" ELSE ""

\* The URL with strings.TrimSuffix(parsed.Path, "/") applied.
URLTrimSlash(u) == IF u = "https://cfg.example/" THEN "https://cfg.example" ELSE u

NoClientConfig == [called |-> FALSE, baseURL |-> "", apiKey |-> "",
                   insecure |-> FALSE]

NoClient == [ok |-> FALSE, baseURL |-> "", apiKey |-> "", insecure |-> FALSE,
             maxRetries |-> 0, retryDelay |-> {}, err |-> "none"]

ClientErr(e) == [NoClient EXCEPT !.err = e]

\* sdk.NewClient
NewClient(cfg) ==
    IF cfg.baseURL = "" THEN ClientErr("base URL must be provided")
    ELSE IF ~URLParses(cfg.baseURL) THEN ClientErr("unable to parse base URL")
    ELSE IF URLScheme(cfg.baseURL) = ""
    THEN ClientErr("base URL must include an HTTP or HTTPS scheme")
    ELSE IF cfg.apiKey = "" THEN ClientErr("API key must be provided")
    ELSE [ok |-> TRUE, baseURL |-> URLTrimSlash(cfg.baseURL),
          apiKey |-> cfg.apiKey, insecure |-> cfg.insecure,
          maxRetries |-> NormalizeMaxRetries(0),
          retryDelay |-> NormalizeRetryDelay({}), err |-> "none"]

NoProviderData == [set |-> FALSE, client |-> NoClient, networkID |-> ""]

Configure ==
    /\ cPc = "start"
    /\ cPc' = "done"
    /\ envReads' = EnvLookups(config, env)
    /\ LET baseURL   == ResolvedBaseURL(config, env)
           apiKey    == ResolvedAPIKey(config, env)
           networkID == ResolvedNetworkID(config, env)
           insecure  == IF ~config.insecure.isNull
                        THEN ValueBool(config.insecure) ELSE FALSE
           cfg       == [called |-> TRUE, baseURL |-> baseURL,
                         apiKey |-> apiKey, insecure |-> insecure]
           client    == NewClient(cfg)
       IN
       IF baseURL = ""
       THEN /\ cDiag' = "Missing Base URL"
            /\ UNCHANGED <<clientConfig, providerData>>
       ELSE IF apiKey = ""
       THEN /\ cDiag' = "Missing API Key"
            /\ UNCHANGED <<clientConfig, providerData>>
       ELSE IF networkID = ""
       THEN /\ cDiag' = "Missing Network ID"
            /\ UNCHANGED <<clientConfig, providerData>>
       ELSE /\ clientConfig' = cfg
            /\ IF ~client.ok
               THEN /\ cDiag' = "Unable to Configure Forward Networks Client"
                    /\ UNCHANGED providerData
               ELSE /\ providerData' = [set |-> TRUE, client |-> client,
                                        networkID |-> networkID]
                    /\ UNCHANGED cDiag
    /\ UNCHANGED <<config, env>>
    /\ UNCHANGED <<doVars, snapVars, reqVars, sdkVars, provVars>>

----------------------------------------------------------------------------
(* Client.NewRequest (internal/sdk/client.go).  A URL is a record of its   *)
(* scheme, host, path and query; a path is the sequence of its segments,   *)
(* so "/api/version" is <<"api", "version">> and "" is <<>>.               *)

\* userAgent := strings.TrimSpace(cfg.UserAgent), or the default
NormalizeUserAgent(ua) ==
    IF TrimSpace(ua) = "" THEN "terraform-provider-forward/dev" ELSE TrimSpace(ua)

\* net/url resolvePath: a rooted reference replaces the base path, another
\* one replaces the base path's last segment, an empty one keeps it.
ResolvePath(base, ref) ==
    IF ref.segs = <<>> THEN base
    ELSE IF ref.rooted THEN ref.segs
    ELSE IF base = <<>> THEN ref.segs
    ELSE SubSeq(base, 1, Len(base) - 1) \o ref.segs

\* c.baseURL.ResolveReference(rel), for a reference without scheme and host
ResolveReference(base, ref) ==
    [scheme |-> base.scheme, host |-> base.host,
     path |-> ResolvePath(base.path, ref), query |-> ref.query]

NoRequest == [built |-> FALSE, err |-> "none", method |-> "",
              url |-> [scheme |-> "", host |-> "", path |-> <<>>, query |-> ""],
              authorization |-> <<>>, userAgent |-> "", accept |-> "",
              contentType |-> ""]

\* The Authorization header is fmt.Sprintf("Bearer %s", c.apiKey), kept as
\* the pair of its scheme and its credential.
NewRequest ==
    /\ nrPc = "start"
    /\ nrPc' = "done"
    /\ IF ~nrArgs.path.parses
       THEN request' = [NoRequest EXCEPT !.err = "unable to parse request path"]
       ELSE request' =
              [built |-> TRUE, err |-> "none", method |-> nrArgs.method,
               url |-> ResolveReference(nrClient.baseURL, nrArgs.path),
               authorization |-> <<"Bearer", nrClient.apiKey>>,
               userAgent |-> nrClient.userAgent,
               accept |-> "application/json",
               contentType |-> IF nrArgs.body THEN "application/json" ELSE ""]
    /\ UNCHANGED <<nrClient, nrArgs>>
    /\ UNCHANGED <<doVars, snapVars, cfgVars, sdkVars, provVars>>

----------------------------------------------------------------------------
(* The typed accessors of the SDK (internal/sdk/snapshots.go,              *)
(* intent_checks.go, nqe.go, version.go and the path search accessor).     *)
(* Every accessor checks its arguments, builds the request, calls          *)
(* Client.Do and maps what Do returns to its own result.                   *)

Accessors ==
    {"ListSnapshots", "CreateSnapshot", "GetSnapshot", "DeleteSnapshot",
     "ListSnapshotChecks", "AddSnapshotCheck", "GetSnapshotCheck",
     "DeactivateSnapshotCheck", "DeactivateSnapshotChecks",
     "RunNQEQuery", "ListNQEQueries", "RunNQEDiff", "GetVersion", "SearchPaths"}

\* Accessors that return only an error.
ErrorOnlyAccessors ==
    {"DeleteSnapshot", "DeactivateSnapshotCheck", "DeactivateSnapshotChecks"}

\* url.PathEscape, on the identifiers the model draws.
PathEscape(v) ==
    CASE v = "a/b" -> "a%2Fb"
      [] v = " "   -> "%20"
      [] OTHER     -> v

\* The error an accessor returns before it builds a request, or "none".
ArgsError(acc, args) ==
    LET a == TrimSpace(args.a)
        b == TrimSpace(args.b)
    IN
    CASE acc \in {"ListSnapshots", "CreateSnapshot"} ->
            IF a = "" THEN "networkID must be provided" ELSE "none"
      [] acc = "GetSnapshot" ->
            IF a = "" \/ b = "" THEN "networkID and snapshotID must be provided"
            ELSE "none"
      [] acc \in {"DeleteSnapshot", "ListSnapshotChecks", "DeactivateSnapshotChecks"} ->
            IF a = "" THEN "snapshotID must be provided" ELSE "none"
      [] acc = "AddSnapshotCheck" ->
            IF a = "" THEN "snapshotID must be provided"
            ELSE IF ~args.payload THEN "definition must be provided"
            ELSE "none"
      [] acc \in {"GetSnapshotCheck", "DeactivateSnapshotCheck"} ->
            IF a = "" \/ b = "" THEN "snapshotID and checkID must be provided"
            ELSE "none"
      [] acc = "RunNQEQuery" ->
            IF ~args.payload THEN "either query or query_id must be provided"
            ELSE IF args.b = "" /\ args.a = ""
            THEN "either snapshotID or networkID must be supplied"
            ELSE "none"
      [] acc = "RunNQEDiff" ->
            IF a = "" \/ b = ""
            THEN "beforeSnapshotID and afterSnapshotID must be provided"
            ELSE IF ~args.payload THEN "queryId must be provided"
            ELSE "none"
      [] acc = "SearchPaths" ->
            IF a = "" THEN "networkID must be provided"
            ELSE IF ~args.payload THEN "dstIP must be provided"
            ELSE "none"
      [] OTHER -> "none"

\* The path an accessor passes to NewRequest: its segments, with the
\* trimmed identifiers escaped.  Query parameters are left out.
AccessorPath(acc, args) ==
    LET a == PathEscape(TrimSpace(args.a))
        b == PathEscape(TrimSpace(args.b))
    IN
    CASE acc \in {"ListSnapshots", "CreateSnapshot"} ->
            <<"api", "networks", a, "snapshots">>
      [] acc = "GetSnapshot" -> <<"api", "networks", a, "snapshots", b>>
      [] acc = "DeleteSnapshot" -> <<"api", "snapshots", a>>
      [] acc \in {"ListSnapshotChecks", "AddSnapshotCheck",
                  "DeactivateSnapshotChecks"} ->
            <<"api", "snapshots", a, "checks">>
      [] acc \in {"GetSnapshotCheck", "DeactivateSnapshotCheck"} ->
            <<"api", "snapshots", a, "checks", b>>
      [] acc = "RunNQEQuery" -> <<"api", "nqe">>
      [] acc = "ListNQEQueries" -> <<"api", "nqe", "queries">>
      [] acc = "RunNQEDiff" -> <<"api", "nqe-diffs", a, b>>
      [] acc = "GetVersion" -> <<"api", "version">>
      [] OTHER -> <<"api", "networks", a, "paths">>

OkStatuses_CreatedOnly(acc) ==
    CASE acc = "CreateSnapshot" -> {201}
      [] acc = "DeleteSnapshot" -> {200, 204}
      [] OTHER -> {200}

\* The statuses after which an accessor goes on to decode the body (or, for
\* an accessor that returns only an error, returns nil).
OkStatuses(acc) ==
    CASE acc = "CreateSnapshot" -> {200, 202, 201}
      [] acc = "DeleteSnapshot" -> {200, 204}
      [] OTHER -> {200}

\* What a response body read into an error message can hold.
BodyTexts == {"", "not found", "404"}

\* An accessor's error: its message, the status and the body text printed
\* in it, and the error of Do it wraps with %w.
AccErr(kind, status, text, cause) ==
    [kind |-> kind, status |-> status, text |-> text, cause |-> cause]

NoAccErr == AccErr("nil", 0, "", NoErr)

\* What an accessor returns when it fails: no value, and the error.
AccFail(e) == [value |-> FALSE, err |-> e]

DeleteTreats404_AsError(acc, status) == FALSE

\* if resp.StatusCode == http.StatusNotFound { return nil }
DeleteTreats404(acc, status) == acc = "DeleteSnapshot" /\ status = 404

\* The accessor from the return of Do on: text is the body's text, decodes
\* whether json.Decode accepts the body.  What it returns on success is the
\* decoded value (none for an accessor that returns only an error) and nil.
AccessorReturn(acc, doRes, text, decodes) ==
    LET ok == [value |-> acc \notin ErrorOnlyAccessors, err |-> NoAccErr] IN
    IF doRes.err # NoErr
    THEN AccFail(AccErr("request failed", 0, "", doRes.err))
    ELSE IF DeleteTreats404(acc, doRes.resp.status)
    THEN ok
    ELSE IF acc = "GetSnapshot" /\ doRes.resp.status = 404
    THEN AccFail(AccErr("snapshot not found", 0, "", NoErr))
    ELSE IF doRes.resp.status \notin OkStatuses(acc)
    THEN AccFail(AccErr("unexpected status", doRes.resp.status, text, NoErr))
    ELSE IF acc \notin ErrorOnlyAccessors /\ ~decodes
    THEN AccFail(AccErr("decode response", 0, "", NoErr))
    ELSE ok

\* The accessor up to its call of Do.
AccessorCall ==
    /\ aPc = "start"
    /\ IF ArgsError(accessor, aArgs) # "none"
       THEN /\ aResult' = AccFail(AccErr(ArgsError(accessor, aArgs), 0, "", NoErr))
            /\ aPc' = "done"
            /\ UNCHANGED <<aPath, aBody, doVars>>
       ELSE /\ aPath' = AccessorPath(accessor, aArgs)
            /\ aPc' = "do"
            /\ method' = CASE accessor \in {"CreateSnapshot", "AddSnapshotCheck",
                                            "RunNQEQuery", "RunNQEDiff"} -> "POST"
                            [] accessor \in ErrorOnlyAccessors -> "DELETE"
                            [] OTHER -> "GET"
            /\ pc' = "attempt"
            /\ \E c \in {"none", "canceled"} : ctxErr' = c
            /\ UNCHANGED <<aBody, aResult, maxRetries, retryDelay, attempt, lastErr,
                           result, timerFired, outcomes, waits, bodyResets>>
    /\ UNCHANGED <<accessor, aArgs>>
    /\ UNCHANGED <<snapVars, cfgVars, reqVars, provVars>>

\* The accessor after Do returned.
AccessorFinish ==
    /\ aPc = "do"
    /\ pc = "done"
    /\ aPc' = "done"
    /\ \E text \in BodyTexts, decodes \in BOOLEAN :
        /\ aBody' = IF result.err = NoErr
                    THEN [text |-> text, decodes |-> decodes]
                    ELSE [text |-> "", decodes |-> FALSE]
        /\ aResult' = AccessorReturn(accessor, result, text, decodes)
    /\ UNCHANGED <<accessor, aArgs, aPath>>
    /\ UNCHANGED <<doVars, snapVars, cfgVars, reqVars, provVars>>

----------------------------------------------------------------------------
(* The resources and data sources (internal/provider): what they share.    *)
(* Terraform configures the provider, hands the provider data to the       *)
(* resource or data source, and then calls its operations one at a time:   *)
(* Create or ImportState while there is no state, Read, Update or Delete   *)
(* while there is one, and nothing more once an operation has returned an  *)
(* error diagnostic.                                                       *)

\* Largest number of operations Terraform calls in one behaviour.
MaxOps == 2

\* No state (a resource not created yet, removed or destroyed), or the
\* attributes of the state.
NoTfState == [present |-> FALSE, attrs |-> <<>>]

Stored(attrs) == [present |-> TRUE, attrs |-> attrs]

\* stringOrNull (the data sources' and the NQE resource's helper)
stringOrNull(v) == IF v = "" THEN TFNull ELSE TFStr(v)

\* stringOrEmpty / attrStringValue / stringValue
stringOrEmpty(v) == IF v.isNull \/ v.isUnknown THEN "" ELSE v.value

\* strings.Contains(strings.ToLower(err.Error()), "not found")
TextHasNotFound(err) ==
    \/ err.kind = "snapshot not found"
    \/ err.kind = "unexpected status" /\ err.text = "not found"

isNotFoundError(err) ==
    /\ err # NoAccErr
    /\ \/ IsCanceled(err.cause)
       \/ TextHasNotFound(err)
       \/ err.kind = "unexpected status" /\ (err.status = 404 \/ err.text = "404")

\* What Client.Do can return for a request about an object that exists or
\* does not: a 2xx answer needs the object, a 404 its absence.
Answers(ctx, exists) ==
    {d \in DoFinalResults(ctx) :
        d.err = NoErr =>
            /\ d.resp.status = 404 => ~exists
            /\ d.resp.status \in {200, 201, 202, 204} => exists}

\* An accessor called by an operation: its result, and the number of calls
\* of Client.Do it makes.
Call(acc, args, d, text, decodes) ==
    IF ArgsError(acc, args) # "none"
    THEN AccFail(AccErr(ArgsError(acc, args), 0, "", NoErr))
    ELSE AccessorReturn(acc, d, text, decodes)

Sent(acc, args) == IF ArgsError(acc, args) # "none" THEN 0 ELSE 1

\* Resource.Configure / DataSource.Configure: keep req.ProviderData, which
\* is what the provider's Configure set, or nothing.
ResourceConfigure ==
    /\ cPc = "done"
    /\ rPc = "new"
    /\ rPc' = "ready"
    /\ rData' = providerData
    /\ UNCHANGED <<target, remote, tfSt, hOp, hIn, hPrev, hDiag, hReqs, hSteps>>
    /\ UNCHANGED <<doVars, snapVars, cfgVars, reqVars, sdkVars>>

\* Terraform may call an operation of resource or data source t: with or
\* without a state, after no error diagnostic, and never with a state that
\* holds an unknown value (Terraform accepts no such state from an apply).
Callable(t, withState) ==
    /\ rPc = "ready"
    /\ target = t
    /\ hSteps < MaxOps
    /\ hDiag = "none"
    /\ tfSt.present = withState
    /\ \A f \in DOMAIN tfSt.attrs : ~tfSt.attrs[f].isUnknown

\* The operation returns: the request it was called with (and, kept with
\* it, the operation called before and what Client.Do answered), the state
\* and the diagnostic it leaves, and the number of calls of Client.Do it
\* made.
Returns(op, rq, st, d, reqs) ==
    /\ hOp' = op
    /\ hIn' = rq @@ [after |-> hOp]
    /\ hPrev' = tfSt
    /\ tfSt' = st
    /\ hDiag' = d
    /\ hReqs' = reqs
    /\ hSteps' = hSteps + 1
    /\ UNCHANGED <<rPc, target, rData>>
    /\ UNCHANGED <<doVars, snapVars, cfgVars, reqVars, sdkVars>>

Unconfigured_Proceeds(op, summary) ==
    /\ Returns(op, [ctx |-> "none"], tfSt, "none", 0)
    /\ UNCHANGED remote

\* if r.providerData == nil { AddError(...); return }
Unconfigured(op, summary) ==
    /\ Returns(op, [ctx |-> "none"], tfSt, summary, 0)
    /\ UNCHANGED remote

----------------------------------------------------------------------------
(* SnapshotResource: Read, Update, Delete, ImportState.  Of the state the  *)
(* model keeps id, network_id, note and state; the remote snapshot is      *)
(* [exists, id, network, note, state].                                     *)

\* The state a successful Create left for the remote snapshot.
SnapshotStateOf(r) ==
    Stored([id |-> TFStr(r.id), networkID |-> TFStr(r.network),
            note |-> stringOrNull(r.note), state |-> stringOrNullValue(r.state)])

SnapshotResourceRead ==
    /\ Callable("forward_snapshot", TRUE)
    /\ IF ~rData.set
       THEN Unconfigured("Read", "Unconfigured Provider")
       ELSE \E ctx \in {"none", "canceled"}, text \in BodyTexts, decodes \in BOOLEAN :
            LET network == ValueString(tfSt.attrs.networkID)
                id      == ValueString(tfSt.attrs.id)
                args    == [a |-> network, b |-> id, payload |-> TRUE]
            IN
            \E d \in Answers(ctx, /\ remote.exists
                                   /\ remote.network = network
                                   /\ remote.id = id) :
                LET rq   == [ctx |-> ctx, do |-> d, text |-> text, decodes |-> decodes]
                    r    == Call("GetSnapshot", args, d, text, decodes)
                    sent == Sent("GetSnapshot", args)
                    new  == [tfSt.attrs EXCEPT !.state = stringOrNullValue(remote.state)]
                IN
                /\ UNCHANGED remote
                /\ IF r.err # NoAccErr
                   THEN IF TextHasNotFound(r.err)
                        THEN Returns("Read", rq, NoTfState, "none", sent)
                        ELSE Returns("Read", rq, tfSt,
                                     "Error reading snapshot", sent)
                   ELSE Returns("Read", rq, Stored(new), "none", sent)

\* The plan of an update: the configuration's note, id kept from the state
\* (UseStateForUnknown), network_id unchanged (a change replaces the
\* resource), and the computed state unknown, as the framework marks every
\* computed attribute without a plan modifier in a plan that changes
\* something.
SnapshotResourceUpdate ==
    /\ Callable("forward_snapshot", TRUE)
    /\ \E p \in {[id |-> tfSt.attrs.id, networkID |-> tfSt.attrs.networkID,
                  note |-> n, state |-> TFUnknown] :
                    n \in {TFNull, TFStr("n1"), TFStr("n2")}} :
        Returns("Update", [ctx |-> "none", plan |-> p], Stored(p), "none", 0)
    /\ UNCHANGED remote

SnapshotResourceDelete ==
    /\ Callable("forward_snapshot", TRUE)
    /\ IF ~rData.set
       THEN Unconfigured("Delete", "Unconfigured Provider")
       ELSE \E ctx \in {"none", "canceled"}, text \in BodyTexts :
            LET id   == ValueString(tfSt.attrs.id)
                args == [a |-> id, b |-> "", payload |-> TRUE]
            IN
            \E d \in Answers(ctx, remote.exists /\ remote.id = id) :
                LET rq      == [ctx |-> ctx, do |-> d, text |-> text]
                    r       == Call("DeleteSnapshot", args, d, text, TRUE)
                    sent    == Sent("DeleteSnapshot", args)
                    failed  == r.err # NoAccErr /\ ~isNotFoundError(r.err)
                    deleted == sent = 1 /\ d.err = NoErr
                               /\ d.resp.status \in {200, 204}
                IN
                /\ remote' = IF deleted THEN [remote EXCEPT !.exists = FALSE]
                             ELSE remote
                /\ IF failed
                   THEN Returns("Delete", rq, tfSt,
                                "Error deleting snapshot", sent)
                   ELSE Returns("Delete", rq, NoTfState, "none", sent)

\* strings.Split(id, "/"), on the import IDs drawn.
Split(id) ==
    CASE id = "net-1/snap-1"   -> <<"net-1", "snap-1">>
      [] id = "net-1/snap-9"   -> <<"net-1", "snap-9">>
      [] id = "net-1/snap-1/x" -> <<"net-1", "snap-1", "x">>
      [] id = "/snap-1"        -> <<"", "snap-1">>
      [] OTHER                 -> <<id>>

ImportParts_AtLeastTwo(parts) == Len(parts) >= 2

\* if len(parts) != 2 { AddError("Invalid import format", ...) }
ImportParts(parts) == Len(parts) = 2

SnapshotResourceImportState ==
    /\ Callable("forward_snapshot", FALSE)
    /\ \E id \in {"net-1/snap-1", "net-1/snap-9", "snap-1", "net-1/snap-1/x",
                  "/snap-1", ""} :
        LET parts == Split(id)
            rq    == [ctx |-> "none", id |-> id]
        IN
        IF ~ImportParts(parts)
        THEN Returns("ImportState", rq, tfSt, "Invalid import format", 0)
        ELSE Returns("ImportState", rq,
                     Stored([id |-> TFStr(parts[2]), networkID |-> TFStr(parts[1]),
                             note |-> TFNull, state |-> TFNull]),
                     "none", 0)
    /\ UNCHANGED remote

----------------------------------------------------------------------------
(* IntentCheckResource.  Of the state the model keeps id, snapshot_id,     *)
(* definition_json, note and status; the remote check is                   *)
(* [exists, id, snapshot, note, status].                                   *)

IntentCheckExists(snapshot, id) ==
    remote.exists /\ remote.snapshot = snapshot /\ remote.id = id

\* The state a successful Create left for the remote check.
IntentCheckStateOf(r) ==
    Stored([id |-> TFStr(r.id), snapshotID |-> TFStr(r.snapshot),
            definition |-> TFStr("{\"checkType\":\"NQE\"}"),
            note |-> stringOrNull(r.note), status |-> stringOrNull(r.status)])

\* setCheckState, on the attributes kept
setCheckState(m, res) ==
    [m EXCEPT !.status = stringOrNull(res.status), !.note = stringOrNull(res.note)]

\* In the plan of a Create the computed id and status are unknown; the
\* definition_json values drawn are an object, the JSON null, and no JSON.
IntentCheckResourceCreate ==
    /\ Callable("forward_intent_check", FALSE)
    /\ IF ~rData.set
       THEN Unconfigured("Create", "Unconfigured Provider")
       ELSE \E p \in [id : {TFUnknown}, snapshotID : {TFStr("snap-1"), TFStr(" ")},
                       definition : {TFStr("{\"checkType\":\"NQE\"}"), TFStr("null"),
                                     TFStr("not json")},
                       note : {TFNull, TFStr("n1")}, status : {TFUnknown}],
               ctx \in {"none", "canceled"}, text \in BodyTexts,
               decodes \in BOOLEAN :
            LET rq == [ctx |-> ctx, plan |-> p] IN
            IF p.definition.isNull \/ p.definition.isUnknown
            THEN Returns("Create", rq, tfSt, "Missing Definition", 0)
                 /\ UNCHANGED remote
            ELSE IF p.definition.value = "not json"  \* json.Unmarshal fails
            THEN Returns("Create", rq, tfSt, "Invalid Definition JSON", 0)
                 /\ UNCHANGED remote
            ELSE
            LET args == [a |-> ValueString(p.snapshotID), b |-> "",
                         payload |-> p.definition.value # "null"]
                sent == Sent("AddSnapshotCheck", args)
            IN
            \E d \in DoFinalResults(ctx) :
                LET r     == Call("AddSnapshotCheck", args, d, text, decodes)
                    added == [exists |-> TRUE, id |-> "chk-1",
                              snapshot |-> TrimSpace(args.a),
                              note |-> stringOrEmpty(p.note), status |-> "PASS"]
                    new   == setCheckState([p EXCEPT !.id = TFStr(added.id)], added)
                IN
                /\ remote' = IF sent = 1 /\ d.err = NoErr /\ d.resp.status = 200
                             THEN added ELSE remote
                /\ IF r.err # NoAccErr
                   THEN Returns("Create", rq, tfSt, "Error creating intent check", sent)
                   ELSE Returns("Create", rq, Stored(new), "none", sent)

IntentCheckResourceRead ==
    /\ Callable("forward_intent_check", TRUE)
    /\ IF ~rData.set
       THEN Unconfigured("Read", "Unconfigured Provider")
       ELSE \E ctx \in {"none", "canceled"}, text \in BodyTexts, decodes \in BOOLEAN :
            LET snapshot == ValueString(tfSt.attrs.snapshotID)
                id       == ValueString(tfSt.attrs.id)
                args     == [a |-> snapshot, b |-> id, payload |-> TRUE]
            IN
            \E d \in Answers(ctx, IntentCheckExists(snapshot, id)) :
                LET rq   == [ctx |-> ctx, do |-> d, text |-> text, decodes |-> decodes]
                    r    == Call("GetSnapshotCheck", args, d, text, decodes)
                    sent == Sent("GetSnapshotCheck", args)
                IN
                /\ UNCHANGED remote
                /\ IF r.err # NoAccErr
                   THEN IF isNotFoundError(r.err)
                        THEN Returns("Read", rq, NoTfState, "none", sent)
                        ELSE Returns("Read", rq, tfSt,
                                     "Error reading intent check", sent)
                   ELSE Returns("Read", rq,
                                Stored(setCheckState(tfSt.attrs, remote)), "none", sent)

\* The plan of an update: the configuration's note; snapshot_id and
\* definition_json unchanged (a change replaces the resource); the computed
\* id and status unknown, no plan modifier keeping them.
IntentCheckResourceUpdate ==
    /\ Callable("forward_intent_check", TRUE)
    /\ \E p \in {[id |-> TFUnknown, snapshotID |-> tfSt.attrs.snapshotID,
                  definition |-> tfSt.attrs.definition, note |-> n,
                  status |-> TFUnknown] : n \in {TFNull, TFStr("n1"), TFStr("n2")}} :
        Returns("Update", [ctx |-> "none", plan |-> p], Stored(p), "none", 0)
    /\ UNCHANGED remote

IntentCheckResourceDelete ==
    /\ Callable("forward_intent_check", TRUE)
    /\ IF ~rData.set
       THEN Unconfigured("Delete", "Unconfigured Provider")
       ELSE \E ctx \in {"none", "canceled"}, text \in BodyTexts :
            LET snapshot == ValueString(tfSt.attrs.snapshotID)
                id       == ValueString(tfSt.attrs.id)
                args     == [a |-> snapshot, b |-> id, payload |-> TRUE]
            IN
            \E d \in Answers(ctx, IntentCheckExists(snapshot, id)) :
                LET rq      == [ctx |-> ctx, do |-> d, text |-> text]
                    r       == Call("DeactivateSnapshotCheck", args, d, text, TRUE)
                    sent    == Sent("DeactivateSnapshotCheck", args)
                    failed  == r.err # NoAccErr /\ ~isNotFoundError(r.err)
                    deleted == sent = 1 /\ d.err = NoErr /\ d.resp.status = 200
                IN
                /\ remote' = IF deleted THEN [remote EXCEPT !.exists = FALSE]
                             ELSE remote
                /\ IF failed
                   THEN Returns("Delete", rq, tfSt,
                                "Error deleting intent check", sent)
                   ELSE Returns("Delete", rq, NoTfState, "none", sent)

\* resource.ImportStatePassthroughID(ctx, path.Root("id"), req, resp)
IntentCheckResourceImportState ==
    /\ Callable("forward_intent_check", FALSE)
    /\ \E id \in {"chk-1", "chk-9"} :
        Returns("ImportState", [ctx |-> "none", id |-> id],
                Stored([id |-> TFStr(id), snapshotID |-> TFNull,
                        definition |-> TFNull, note |-> TFNull, status |-> TFNull]),
                "none", 0)
    /\ UNCHANGED remote

----------------------------------------------------------------------------
(* NQEQueryResource (forward_nqe_query_definition).  The state is id,      *)
(* path, repository, intent and query_id; the remote NQE library is the    *)
(* sequence of queries the listing returns.                                *)

\* The queries a library can hold: two that differ in the case of the
\* repository (one of them without an intent), one of another repository
\* and one of another path.
LibraryEntries ==
    {[queryID |-> "FQ_1", repository |-> "ORG", path |-> "/L3/Example",
      intent |-> "Validate MTU"],
     [queryID |-> "FQ_2", repository |-> "org", path |-> "/L3/Example",
      intent |-> ""],
     [queryID |-> "FQ_3", repository |-> "FWD", path |-> "/L3/Example",
      intent |-> "Validate MTU"],
     [queryID |-> "FQ_4", repository |-> "ORG", path |-> "/L3/Other",
      intent |-> "Other"]}

NoQuery == [queryID |-> "", repository |-> "", path |-> "", intent |-> ""]

QueryMatches_ExactRepository(q, queryPath, repository) ==
    q.path = queryPath /\ q.repository = repository

\* q.Path == queryPath && strings.EqualFold(q.Repository, repository)
QueryMatches(q, queryPath, repository) ==
    q.path = queryPath /\ EqualFold(q.repository, repository)

\* The loop of lookupQuery: the first query that matches, or nil.
FirstMatch(queries, queryPath, repository) ==
    LET hits == {i \in 1..Len(queries) :
                    QueryMatches(queries[i], queryPath, repository)}
    IN  IF hits = {} THEN [found |-> FALSE, query |-> NoQuery]
        ELSE [found |-> TRUE,
              query |-> queries[CHOOSE i \in hits : \A j \in hits : i <= j]]

\* lookupQuery: the diagnostic, the query found and the calls of Client.Do.
lookupQuery(queryPath, repository, d, text, decodes) ==
    IF TrimSpace(queryPath) = ""
    THEN [diag |-> "Missing Path", found |-> FALSE, query |-> NoQuery, sent |-> 0]
    ELSE LET r == AccessorReturn("ListNQEQueries", d, text, decodes)
             m == FirstMatch(remote.library, queryPath, repository)
         IN  IF r.err # NoAccErr
             THEN [diag |-> "Error listing NQE queries", found |-> FALSE,
                   query |-> NoQuery, sent |-> 1]
             ELSE [diag |-> "none", found |-> m.found, query |-> m.query,
                   sent |-> 1]

\* The attributes Create and Read take from the query found.
WithQuery(m, q) ==
    [m EXCEPT !.queryID = TFStr(q.queryID), !.intent = stringOrNull(q.intent),
              !.repository = TFStr(q.repository), !.id = TFStr(q.queryID)]

\* The state a successful Create left when it found q.
NQEStateOf(q) ==
    Stored(WithQuery([id |-> TFUnknown, path |-> TFStr(q.path),
                      repository |-> TFUnknown, intent |-> TFUnknown,
                      queryID |-> TFUnknown], q))

\* In the plan of a Create repository is known (its default is "ORG") and
\* the computed id, intent and query_id are unknown.
NQEQueryResourceCreate ==
    /\ Callable("forward_nqe_query_definition", FALSE)
    /\ UNCHANGED remote
    /\ IF ~rData.set
       THEN Unconfigured("Create", "Unconfigured Provider")
       ELSE \E p \in [id : {TFUnknown}, path : {TFStr("/L3/Example"), TFStr(" ")},
                       repository : {TFStr("ORG"), TFStr("org"), TFStr("FWD")},
                       intent : {TFUnknown}, queryID : {TFUnknown}],
               ctx \in {"none", "canceled"}, text \in BodyTexts,
               decodes \in BOOLEAN :
            \E d \in DoFinalResults(ctx) :
            LET rq == [ctx |-> ctx, plan |-> p]
                l  == lookupQuery(ValueString(p.path), ValueString(p.repository),
                                  d, text, decodes)
            IN
            IF l.diag # "none"
            THEN Returns("Create", rq, tfSt, l.diag, l.sent)
            ELSE IF ~l.found
            THEN Returns("Create", rq, tfSt, "NQE query not found", l.sent)
            ELSE Returns("Create", rq, Stored(WithQuery(p, l.query)), "none", l.sent)

NQEQueryResourceRead ==
    /\ Callable("forward_nqe_query_definition", TRUE)
    /\ UNCHANGED remote
    /\ IF ~rData.set
       THEN Unconfigured("Read", "Unconfigured Provider")
       ELSE \E ctx \in {"none", "canceled"}, text \in BodyTexts, decodes \in BOOLEAN :
            \E d \in DoFinalResults(ctx) :
            LET rq == [ctx |-> ctx, do |-> d, text |-> text, decodes |-> decodes]
                l  == lookupQuery(ValueString(tfSt.attrs.path),
                                  ValueString(tfSt.attrs.repository),
                                  d, text, decodes)
            IN
            IF l.diag # "none"
            THEN Returns("Read", rq, tfSt, l.diag, l.sent)
            ELSE IF ~l.found
            THEN Returns("Read", rq, NoTfState, "none", l.sent)
            ELSE Returns("Read", rq, Stored(WithQuery(tfSt.attrs, l.query)),
                         "none", l.sent)

\* The plan of an update: the configuration's repository; path unchanged (a
\* change replaces the resource); the computed id, intent and query_id
\* unknown, no plan modifier keeping them.
NQEQueryResourceUpdate ==
    /\ Callable("forward_nqe_query_definition", TRUE)
    /\ \E p \in {[id |-> TFUnknown, path |-> tfSt.attrs.path,
                  repository |-> TFStr(r), intent |-> TFUnknown,
                  queryID |-> TFUnknown] : r \in {"ORG", "org", "FWD"}} :
        Returns("Update", [ctx |-> "none", plan |-> p], Stored(p), "none", 0)
    /\ UNCHANGED remote

NQEQueryResourceDelete_CallsAPI ==
    /\ Callable("forward_nqe_query_definition", TRUE)
    /\ Returns("Delete", [ctx |-> "none"], tfSt, "Error deleting NQE query", 1)
    /\ UNCHANGED remote

\* Delete has an empty body; the framework drops the state.
NQEQueryResourceDelete ==
    /\ Callable("forward_nqe_query_definition", TRUE)
    /\ Returns("Delete", [ctx |-> "none"], NoTfState, "none", 0)
    /\ UNCHANGED remote

\* resource.ImportStatePassthroughID(ctx, path.Root("query_id"), req, resp)
NQEQueryResourceImportState ==
    /\ Callable("forward_nqe_query_definition", FALSE)
    /\ \E id \in {"FQ_1", "FQ_9"} :
        Returns("ImportState", [ctx |-> "none", id |-> id],
                Stored([id |-> TFNull, path |-> TFNull, repository |-> TFNull,
                        intent |-> TFNull, queryID |-> TFStr(id)]),
                "none", 0)
    /\ UNCHANGED remote

----------------------------------------------------------------------------
(* The data sources.  A data source has no state until its Read set one.   *)

\* Largest number of checks and of NQE items the server returns.
MaxChecks == 2

MaxItems == 2

\* All sequences over S of length at most n.
RECURSIVE SeqsUpTo(_, _)
SeqsUpTo(S, n) ==
    IF n = 0 THEN {<<>>}
    ELSE LET shorter == SeqsUpTo(S, n - 1)
         IN  shorter \cup {Append(s, x) : s \in shorter, x \in S}

\* ---- VersionDataSource: the remote is [build, release, version] ----
VersionDataSourceRead ==
    /\ Callable("forward_version", FALSE)
    /\ UNCHANGED remote
    /\ IF ~rData.set
       THEN Unconfigured("Read", "Client Not Configured")
       ELSE \E ctx \in {"none", "canceled"}, text \in BodyTexts, decodes \in BOOLEAN :
            \E d \in DoFinalResults(ctx) :
            LET r == AccessorReturn("GetVersion", d, text, decodes) IN
            IF r.err # NoAccErr
            THEN Returns("Read", [ctx |-> ctx], tfSt, "Unable to Retrieve Version", 1)
            ELSE Returns("Read", [ctx |-> ctx],
                         Stored([build   |-> stringOrNull(remote.build),
                                 release |-> stringOrNull(remote.release),
                                 version |-> stringOrNull(remote.version)]),
                         "none", 1)

\* ---- SnapshotsDataSource: the remote is [list], snapshots [id, state] ----
\* networkID := d.providerData.NetworkID, or the configured one
EffectiveNetworkID(c) ==
    IF ~c.networkID.isNull /\ ~c.networkID.isUnknown
    THEN ValueString(c.networkID) ELSE rData.networkID

SnapshotsDataSourceRead ==
    /\ Callable("forward_snapshots", FALSE)
    /\ UNCHANGED remote
    /\ IF ~rData.set
       THEN Unconfigured("Read", "Client Not Configured")
       ELSE \E c \in [networkID : {TFNull, TFStr(""), TFStr(" "), TFStr("net-2")},
                       limit : {TFIntNull, TFInt(-1), TFInt(5)}],
               ctx \in {"none", "canceled"}, text \in BodyTexts, decodes \in BOOLEAN :
            \E d \in DoFinalResults(ctx) :
            LET rq   == [ctx |-> ctx, config |-> c]
                args == [a |-> EffectiveNetworkID(c), b |-> "", payload |-> TRUE]
                r    == Call("ListSnapshots", args, d, text, decodes)
                sent == Sent("ListSnapshots", args)
                item(s) == [id |-> TFStr(s.id), state |-> stringOrNull(s.state)]
            IN
            IF EffectiveNetworkID(c) = ""
            THEN Returns("Read", rq, tfSt, "Missing Network ID", 0)
            ELSE IF ~c.limit.isNull /\ ~c.limit.isUnknown /\ c.limit.value < 0
            THEN Returns("Read", rq, tfSt, "Invalid Limit", 0)
            ELSE IF r.err # NoAccErr
            THEN Returns("Read", rq, tfSt, "Unable to Retrieve Snapshots", sent)
            ELSE Returns("Read", rq,
                         Stored([snapshots |->
                                   [i \in 1..Len(remote.list) |-> item(remote.list[i])]]),
                         "none", sent)

\* ---- IntentChecksDataSource: the remote is [checks], checks [id, status] ----
StatKeys_NoTimeout == {"PASS", "FAIL", "ERROR"}

\* The keys of the stats map.
StatKeys == {"PASS", "FAIL", "ERROR", "TIMEOUT"}

\* The loop over the checks: if _, ok := stats[status]; ok { stats[status]++ }
RECURSIVE Tally(_)
Tally(checks) ==
    IF checks = <<>> THEN [k \in StatKeys |-> 0]
    ELSE LET before == Tally(SubSeq(checks, 1, Len(checks) - 1))
             status == checks[Len(checks)].status
         IN  IF status \in DOMAIN before
             THEN [before EXCEPT ![status] = @ + 1]
             ELSE before

IntentChecksDataSourceRead ==
    /\ Callable("forward_intent_checks", FALSE)
    /\ UNCHANGED remote
    /\ IF ~rData.set
       THEN Unconfigured("Read", "Client Not Configured")
       ELSE \E c \in [snapshotID : {TFNull, TFStr(""), TFStr(" "), TFStr("snap-1")}],
               ctx \in {"none", "canceled"}, text \in BodyTexts, decodes \in BOOLEAN :
            \E d \in DoFinalResults(ctx) :
            LET rq    == [ctx |-> ctx, config |-> c]
                args  == [a |-> ValueString(c.snapshotID), b |-> "", payload |-> TRUE]
                r     == Call("ListSnapshotChecks", args, d, text, decodes)
                sent  == Sent("ListSnapshotChecks", args)
                stats == Tally(remote.checks)
                StatOf(k) == IF k \in DOMAIN stats THEN stats[k] ELSE 0
                item(k) == [id |-> TFStr(k.id), status |-> stringOrNull(k.status)]
            IN
            IF c.snapshotID.isNull \/ ValueString(c.snapshotID) = ""
            THEN Returns("Read", rq, tfSt, "Missing Snapshot ID", 0)
            ELSE IF r.err # NoAccErr
            THEN Returns("Read", rq, tfSt, "Unable to Retrieve Intent Checks", sent)
            ELSE Returns("Read", rq,
                         Stored([checks |-> [i \in 1..Len(remote.checks) |->
                                                item(remote.checks[i])],
                                 passCount    |-> StatOf("PASS"),
                                 failCount    |-> StatOf("FAIL"),
                                 errorCount   |-> StatOf("ERROR"),
                                 timeoutCount |-> StatOf("TIMEOUT")]),
                         "none", sent)

\* ---- NqeQueryDataSource: the remote is the result [snapshotID, items, total] ----
\* The string stored for one item: "{}" for an empty raw message.
ItemJSON(raw) == IF raw = "" THEN TFStr("{}") ELSE TFStr(raw)

TotalItems_Count(res) == Len(res.items)

\* total_items: *result.TotalNumItems, or len(result.Items)
TotalItems(res) == IF res.total.present THEN res.total.value ELSE Len(res.items)

NqeQueryDataSourceRead ==
    /\ Callable("forward_nqe_query", FALSE)
    /\ UNCHANGED remote
    /\ IF ~rData.set
       THEN Unconfigured("Read", "Client Not Configured")
       ELSE \E c \in [networkID : {TFNull, TFStr(""), TFStr("net-2")},
                       snapshotID : {TFNull, TFStr("snap-1")},
                       query : {TFNull, TFStr("foreach d in network.devices select {n: d.name}")},
                       queryID : {TFNull, TFStr(""), TFStr("FQ_1")},
                       limit : {TFIntNull, TFInt(-1)}],
               ctx \in {"none", "canceled"}, text \in BodyTexts, decodes \in BOOLEAN :
            \E d \in DoFinalResults(ctx) :
            LET rq      == [ctx |-> ctx, config |-> c]
                network == EffectiveNetworkID(c)
                empty(v) == v.isNull \/ ValueString(v) = ""
                args    == [a |-> network, b |-> stringOrEmpty(c.snapshotID),
                            payload |-> ~c.query.isNull \/ ~c.queryID.isNull]
                r       == Call("RunNQEQuery", args, d, text, decodes)
                sent    == Sent("RunNQEQuery", args)
            IN
            IF network = "" /\ empty(c.snapshotID)
            THEN Returns("Read", rq, tfSt, "Missing Network Or Snapshot", 0)
            ELSE IF empty(c.query) /\ empty(c.queryID)
            THEN Returns("Read", rq, tfSt, "Missing Query", 0)
            ELSE IF ~c.limit.isNull /\ c.limit.value < 0
            THEN Returns("Read", rq, tfSt, "Invalid Limit", 0)
            ELSE IF r.err # NoAccErr
            THEN Returns("Read", rq, tfSt, "Unable to Execute NQE Query", sent)
            ELSE Returns("Read", rq,
                         Stored([networkID  |-> TFStr(network),
                                 itemsJSON  |-> [i \in 1..Len(remote.items) |->
                                                   ItemJSON(remote.items[i])],
                                 totalItems |-> TotalItems(remote),
                                 resultSnapshotID |-> stringOrNull(remote.snapshotID)]),
                         "none", sent)

\* ---- PathAnalysisDataSource: the remote is [paths], the number of paths ----
PathAnalysisDataSourceRead ==
    /\ Callable("forward_path_analysis", FALSE)
    /\ UNCHANGED remote
    /\ IF ~rData.set
       THEN Unconfigured("Read", "Unconfigured Provider")
       ELSE \E c \in [from : {TFNull, TFStr("dev-1")},
                       srcIP : {TFNull, TFStr("10.0.0.2")},
                       dstIP : {TFStr("10.0.0.1"), TFStr("")},
                       networkID : {TFStr("net-1"), TFStr(" ")}],
               ctx \in {"none", "canceled"}, text \in BodyTexts, decodes \in BOOLEAN :
            \E d \in DoFinalResults(ctx) :
            LET rq   == [ctx |-> ctx, config |-> c]
                args == [a |-> ValueString(c.networkID), b |-> "",
                         payload |-> /\ ValueString(c.dstIP) # ""
                                     /\ \/ stringOrEmpty(c.from) # ""
                                        \/ stringOrEmpty(c.srcIP) # ""]
                r    == Call("SearchPaths", args, d, text, decodes)
                sent == Sent("SearchPaths", args)
            IN
            IF c.from.isNull /\ c.srcIP.isNull
            THEN Returns("Read", rq, tfSt, "Invalid configuration", 0)
            ELSE IF r.err # NoAccErr
            THEN Returns("Read", rq, tfSt, "Error executing path analysis", sent)
            ELSE Returns("Read", rq,
                         Stored([pathsNull |-> remote.paths = 0,
                                 paths |-> remote.paths]),
                         "none", sent)

----------------------------------------------------------------------------
(* Specifications.                                                         *)

\* A client built by NewClient and a call of Do about to make its first
\* attempt; the context may already be done.
DoStart ==
    /\ \E m \in (-1)..MaxRetriesBound : maxRetries = NormalizeMaxRetries(m)
    /\ \E d \in RetryDelayInputs : retryDelay = NormalizeRetryDelay(d)
    /\ method \in Methods
    /\ pc = "attempt"
    /\ attempt = 0
    /\ lastErr = NoErr
    /\ result = [resp |-> NilResp, err |-> NoErr]
    /\ ctxErr \in {"none", "canceled"}
    /\ timerFired = FALSE
    /\ outcomes = <<>>
    /\ waits = <<>>
    /\ bodyResets = 0

\* No call of Do is under way.
DoIdle ==
    /\ maxRetries = DefaultMaxRetries
    /\ retryDelay = DefaultRetryDelay
    /\ method = "GET"
    /\ pc = "done"
    /\ attempt = 0
    /\ lastErr = NoErr
    /\ result = [resp |-> NilResp, err |-> NoErr]
    /\ ctxErr = "none"
    /\ timerFired = FALSE
    /\ outcomes = <<>>
    /\ waits = <<>>
    /\ bodyResets = 0

\* Terraform calls Create with a plan in which the schema's defaults have
\* been applied, so the three optional attributes are known.
CreateStart ==
    /\ configured \in BOOLEAN
    /\ plan \in [networkID    : NetworkIDs,
                 wait         : {TFBool(TRUE), TFBool(FALSE)},
                 pollInterval : {TFInt(n) : n \in 0..MaxPollInterval},
                 timeout      : {TFInt(n) : n \in (-1)..MaxTimeout}]
    /\ sPc = "start"
    /\ sCtx \in {"none", "canceled"}
    /\ creates = 0
    /\ created = NotCalled
    /\ model = [id |-> TFUnknown, state |-> TFUnknown]
    /\ tfState = NoState
    /\ diag = "none"
    /\ clock = 0
    /\ tickReady = FALSE
    /\ lateTicks = 0
    /\ polls = 0
    /\ lastPoll = NotCalled
    /\ sCalls = <<>>
    /\ waitErr = "none"

\* No call of Create is under way.
CreateIdle ==
    /\ configured = FALSE
    /\ plan = [networkID |-> "net-1", wait |-> TFBool(TRUE),
               pollInterval |-> TFInt(1), timeout |-> TFInt(1)]
    /\ sPc = "done"
    /\ sCtx = "none"
    /\ creates = 0
    /\ created = NotCalled
    /\ model = [id |-> TFUnknown, state |-> TFUnknown]
    /\ tfState = NoState
    /\ diag = "none"
    /\ clock = 0
    /\ tickReady = FALSE
    /\ lateTicks = 0
    /\ polls = 0
    /\ lastPoll = NotCalled
    /\ sCalls = <<>>
    /\ waitErr = "none"

\* Terraform calls Configure with the provider block decoded into the model
\* and with some environment.
ConfigureStart ==
    /\ cPc = "start"
    /\ config \in [baseURL   : {TFNull, TFUnknown, TFStr("")}
                               \cup {TFStr(u) : u \in ConfigBaseURLs},
                   apiKey    : {TFNull, TFUnknown, TFStr(""), TFStr("cfg-key")},
                   networkID : {TFNull, TFUnknown, TFStr(""), TFStr("net-cfg")},
                   insecure  : {TFBoolNull, TFBool(TRUE)}]
    /\ \E b \in {""} \cup EnvBaseURLs, k \in {"", "env-key"},
          t \in {"", "env-token"}, n \in {"", "net-env"} :
        env = [x \in EnvNames |->
                 CASE x = envBaseURL       -> b
                   [] x = envAPIKeyPrimary -> k
                   [] x = envAPIKeyLegacy  -> t
                   [] OTHER                -> n]
    /\ envReads = {}
    /\ clientConfig = NoClientConfig
    /\ providerData = NoProviderData
    /\ cDiag = "none"

\* No call of Configure is under way.
ConfigureIdle ==
    /\ cPc = "done"
    /\ config = [baseURL |-> TFNull, apiKey |-> TFNull, networkID |-> TFNull,
                 insecure |-> TFBoolNull]
    /\ env = [x \in EnvNames |-> ""]
    /\ envReads = {}
    /\ clientConfig = NoClientConfig
    /\ providerData = NoProviderData
    /\ cDiag = "none"

\* No call of NewRequest is under way.
RequestIdle ==
    /\ nrPc = "done"
    /\ nrClient = [baseURL |-> [scheme |-> "https", host |-> "fwd.example",
                                path |-> <<>>],
                   apiKey |-> "cfg-key",
                   userAgent |-> NormalizeUserAgent("")]
    /\ nrArgs = [method |-> "GET",
                 path |-> [parses |-> TRUE, rooted |-> TRUE,
                           segs |-> <<"api", "version">>, query |-> ""],
                 body |-> FALSE]
    /\ request = NoRequest

\* No accessor is being called.
SdkIdle ==
    /\ aPc = "done"
    /\ accessor = "GetVersion"
    /\ aArgs = [a |-> "snap-1", b |-> "chk-1", payload |-> TRUE]
    /\ aPath = <<>>
    /\ aBody = [text |-> "", decodes |-> FALSE]
    /\ aResult = AccFail(AccErr("not called", 0, "", NoErr))

\* No resource or data source is in use.
ProviderIdle ==
    /\ rPc = "new"
    /\ target = "forward_version"
    /\ rData = NoProviderData
    /\ remote = [build |-> "", release |-> "", version |-> "1.0"]
    /\ tfSt = NoTfState
    /\ hOp = "none"
    /\ hIn = [ctx |-> "none"]
    /\ hPrev = NoTfState
    /\ hDiag = "none"
    /\ hReqs = 0
    /\ hSteps = 0

\* A client built by NewClient and a call of NewRequest about to run.  The
\* base URL is Config.BaseURL as url.Parse and TrimSuffix(parsed.Path, "/")
\* leave it: with no path, and with a path prefix.  The path argument is
\* what url.Parse makes of it: rooted when it starts with "/", parses =
\* FALSE for a string url.Parse rejects ("%zz").
InitRequest ==
    /\ DoIdle /\ CreateIdle /\ ConfigureIdle /\ SdkIdle /\ ProviderIdle
    /\ nrPc = "start"
    /\ nrClient \in
        [baseURL : {[scheme |-> "https", host |-> "fwd.example", path |-> <<>>],
                    [scheme |-> "https", host |-> "fwd.example", path |-> <<"proxy">>],
                    [scheme |-> "http", host |-> "10.0.0.1:8443", path |-> <<"a", "b">>]},
         apiKey : {"cfg-key", "env-key"},
         userAgent : {NormalizeUserAgent(u) :
                        u \in {"", " ", "terraform-provider-forward/1.0"}}]
    /\ nrArgs \in
        [method : {"GET", "POST", "DELETE"},
         path : {[parses |-> TRUE, rooted |-> TRUE, segs |-> <<"api", "version">>,
                  query |-> ""],
                 [parses |-> TRUE, rooted |-> TRUE, segs |-> <<"api", "nqe">>,
                  query |-> "networkId=net-1"],
                 [parses |-> TRUE, rooted |-> FALSE, segs |-> <<"api", "version">>,
                  query |-> ""],
                 [parses |-> FALSE, rooted |-> FALSE, segs |-> <<>>, query |-> ""]},
         body : BOOLEAN]
    /\ request = NoRequest

\* An accessor about to be called with some arguments: its first and second
\* identifier (network, snapshot, check, directory) and whether the payload
\* it requires is there (the check definition, the query or query ID, the
\* destination address).  The client is built with Config.MaxRetries 1 and
\* no RetryDelay, and has made no call of Do yet.
InitSdk ==
    /\ CreateIdle /\ ConfigureIdle /\ RequestIdle /\ ProviderIdle
    /\ aPc = "start"
    /\ accessor \in Accessors
    /\ aArgs \in [a : {"snap-1", "a/b", " "}, b : {"chk-1", ""}, payload : BOOLEAN]
    /\ aPath = <<>>
    /\ aBody = [text |-> "", decodes |-> FALSE]
    /\ aResult = AccFail(AccErr("not called", 0, "", NoErr))
    /\ maxRetries = NormalizeMaxRetries(1)
    /\ retryDelay = NormalizeRetryDelay({})
    /\ method = "GET"
    /\ pc = "done"
    /\ attempt = 0
    /\ lastErr = NoErr
    /\ result = [resp |-> NilResp, err |-> NoErr]
    /\ ctxErr = "none"
    /\ timerFired = FALSE
    /\ outcomes = <<>>
    /\ waits = <<>>
    /\ bodyResets = 0

\* The objects the server holds, for each resource and data source.  In a
\* check list the i-th check has the i-th identifier; the statuses drawn
\* hold the four counted ones and two others.  An NQE result holds items as
\* raw JSON texts and totalNumItems, absent or a number that need not be
\* the items' count.  A library holds up to two entries, in either order.
Remotes(t) ==
    LET CheckID(i) == CASE i = 1 -> "chk-1"
                        [] i = 2 -> "chk-2"
                        [] i = 3 -> "chk-3"
                        [] OTHER -> "chk-n"
        statuses == {"PASS", "FAIL", "ERROR", "TIMEOUT", "pass", "NONE"}
        pairs == {<<q1, q2>> : q1 \in LibraryEntries, q2 \in LibraryEntries}
    IN
    CASE t = "forward_snapshot" ->
            [exists : BOOLEAN, id : {"snap-1"}, network : {"net-1"},
             note : {"", "n1"}, state : {"PROCESSED", " "}]
      [] t = "forward_intent_check" ->
            [exists : BOOLEAN, id : {"chk-1"}, snapshot : {"snap-1"},
             note : {"", "n1"}, status : {"PASS"}]
      [] t = "forward_nqe_query_definition" ->
            [library : {<<>>} \cup {<<q>> : q \in LibraryEntries}
                       \cup {l \in pairs : l[1] # l[2]}]
      [] t = "forward_version" ->
            [build : {"", "b1"}, release : {"", "24.1"}, version : {"1.0"}]
      [] t = "forward_snapshots" ->
            [list : SeqsUpTo({[id |-> "snap-1", state |-> "PROCESSED"],
                              [id |-> "snap-2", state |-> ""]}, 2)]
      [] t = "forward_intent_checks" ->
            [checks : {[i \in 1..Len(ss) |-> [id |-> CheckID(i), status |-> ss[i]]] :
                         ss \in SeqsUpTo(statuses, MaxChecks)}]
      [] t = "forward_nqe_query" ->
            [snapshotID : {"", "snap-1"},
             items : SeqsUpTo({"{\"a\":1}", "null"}, MaxItems),
             total : {[present |-> FALSE, value |-> 0], [present |-> TRUE, value |-> 0],
                      [present |-> TRUE, value |-> 7]}]
      [] OTHER -> [paths : 0..1]

\* The states Terraform can hold when the behaviour starts: none, or the
\* one an earlier apply left.
PriorStates(t, r) ==
    CASE t = "forward_snapshot" -> {NoTfState, SnapshotStateOf(r)}
      [] t = "forward_intent_check" -> {NoTfState, IntentCheckStateOf(r)}
      [] t = "forward_nqe_query_definition" ->
            {NoTfState} \cup {NQEStateOf(q) : q \in LibraryEntries}
      [] OTHER -> {NoTfState}

\* Terraform is about to configure the provider and then to call the
\* operations of one resource or data source.
InitProvider ==
    /\ DoIdle /\ CreateIdle /\ RequestIdle /\ SdkIdle
    /\ cPc = "start"
    /\ config \in [baseURL   : {TFNull, TFStr("https://cfg.example/"),
                                TFStr("cfg.example")},
                   apiKey    : {TFNull, TFStr("cfg-key")},
                   networkID : {TFNull, TFStr("net-cfg")},
                   insecure  : {TFBoolNull}]
    /\ \E b \in {"", "://env.example"} :
        env = [x \in EnvNames |-> IF x = envBaseURL THEN b ELSE ""]
    /\ envReads = {}
    /\ clientConfig = NoClientConfig
    /\ providerData = NoProviderData
    /\ cDiag = "none"
    /\ rPc = "new"
    /\ target \in {"forward_snapshot", "forward_intent_check",
                   "forward_nqe_query_definition", "forward_version",
                   "forward_snapshots", "forward_intent_checks",
                   "forward_nqe_query", "forward_path_analysis"}
    /\ rData = NoProviderData
    /\ remote \in Remotes(target)
    /\ tfSt \in PriorStates(target, remote)
    /\ hOp = "none"
    /\ hIn = [ctx |-> "none"]
    /\ hPrev = NoTfState
    /\ hDiag = "none"
    /\ hReqs = 0
    /\ hSteps = 0

InitDo ==
    DoStart /\ CreateIdle /\ ConfigureIdle /\ RequestIdle /\ SdkIdle /\ ProviderIdle

NextDo ==
    \/ DoAttempt
    \/ TimerFire
    \/ SelectTimer
    \/ SelectDone
    \/ ContextEnds

SpecDo == InitDo /\ [][NextDo]_vars

InitSnapshot ==
    CreateStart /\ DoIdle /\ ConfigureIdle /\ RequestIdle /\ SdkIdle /\ ProviderIdle

NextSnapshot ==
    \/ CreateBegin
    \/ WaitAdvanceTime
    \/ WaitTick
    \/ WaitTimedOut
    \/ WaitCtxDone
    \/ CreateContextEnds

SpecSnapshot == InitSnapshot /\ [][NextSnapshot]_vars

InitConfigure ==
    ConfigureStart /\ DoIdle /\ CreateIdle /\ RequestIdle /\ SdkIdle /\ ProviderIdle

NextConfigure ==
    \/ Configure

SpecConfigure == InitConfigure /\ [][NextConfigure]_vars

SpecRequest == InitRequest /\ [][NewRequest]_vars

SpecSdk ==
    /\ InitSdk
    /\ [][\/ AccessorCall
          \/ DoAttempt
          \/ TimerFire
          \/ SelectTimer
          \/ SelectDone
          \/ ContextEnds
          \/ AccessorFinish]_vars

SpecProvider ==
    /\ InitProvider
    /\ [][\/ Configure
          \/ ResourceConfigure
          \/ SnapshotResourceRead
          \/ SnapshotResourceUpdate
          \/ SnapshotResourceDelete
          \/ SnapshotResourceImportState
          \/ IntentCheckResourceCreate
          \/ IntentCheckResourceRead
          \/ IntentCheckResourceUpdate
          \/ IntentCheckResourceDelete
          \/ IntentCheckResourceImportState
          \/ NQEQueryResourceCreate
          \/ NQEQueryResourceRead
          \/ NQEQueryResourceUpdate
          \/ NQEQueryResourceDelete
          \/ NQEQueryResourceImportState
          \/ VersionDataSourceRead
          \/ SnapshotsDataSourceRead
          \/ IntentChecksDataSourceRead
          \/ NqeQueryDataSourceRead
          \/ PathAnalysisDataSourceRead]_vars

----------------------------------------------------------------------------
(* Claims about Client.Do, checked under SpecDo.                           *)

\* The i-th call of httpClient.Do was answered by the server with status s.
Answered(i, s) == outcomes[i].kind = "status" /\ outcomes[i].code = s

\* The i-th call of httpClient.Do ended in a failure that Do retries.
FailedRetryably(i) ==
    \/ outcomes[i].kind = "transport"
    \/ /\ outcomes[i].kind = "status"
       /\ \/ outcomes[i].code = 429
          \/ outcomes[i].code \in 500..599 /\ outcomes[i].code # 501

\* Do returned out of its select because the context was done.
ReturnedOnContext == pc = "done" /\ result.err = CtxErr(ctxErr, FALSE)

\* C1 as stated: a response with status 429 or any status 500..599, received
\* while attempts remain, is never returned by Do, and another attempt
\* follows it.
C1_RetriesEvery5xx ==
    pc = "done" =>
        \A i \in 1..Len(outcomes) : \A s \in {429} \cup 500..599 :
            (Answered(i, s) /\ i <= maxRetries) =>
                /\ result.resp # Resp(s, i)
                /\ i < Len(outcomes)

\* C1 as amended: a response with status 429 or a status 500..599 other than
\* 501, received while attempts remain, is never returned by Do, and another
\* attempt follows it unless Do returned on the context being done; a 501
\* response is returned to the caller at once.
C1_Retries429And5xxBut501 ==
    pc = "done" =>
        \A i \in 1..Len(outcomes) :
            /\ \A s \in {429} \cup (500..599 \ {501}) :
                (Answered(i, s) /\ i <= maxRetries) =>
                    /\ result.resp # Resp(s, i)
                    /\ i < Len(outcomes) \/ ReturnedOnContext
            /\ Answered(i, 501) =>
                    /\ i = Len(outcomes)
                    /\ result = [resp |-> Resp(501, i), err |-> NoErr]

\* C1's case: a 599 and a 429 were each followed by another attempt, and the
\* 200 that came third was returned.
C1_Witness ==
    /\ pc = "done"
    /\ Len(outcomes) = 3
    /\ Answered(1, 599)
    /\ Answered(2, 429)
    /\ result = [resp |-> Resp(200, 3), err |-> NoErr]

AllAttemptsFailed == \A i \in 1..Len(outcomes) : FailedRetryably(i)

\* C2 as stated: never more than maxRetries+1 calls of httpClient.Do; when
\* every one of them ended in a retryable status or a transport error, Do
\* returns after exactly maxRetries+1 of them, with a nil response and a
\* non-nil error.
C2_ExactlyMaxRetriesPlusOne ==
    /\ Len(outcomes) <= maxRetries + 1
    /\ (pc = "done" /\ AllAttemptsFailed) =>
        /\ Len(outcomes) = maxRetries + 1
        /\ result.resp = NilResp
        /\ result.err # NoErr

\* C2 as amended: never more than maxRetries+1 calls of httpClient.Do; when
\* every one of them ended in a retryable status or a transport error, Do
\* returns a nil response and a non-nil error, after exactly maxRetries+1
\* calls unless it returned out of a backoff wait because the request's
\* context was done.
C2_AtMostMaxRetriesPlusOne ==
    /\ Len(outcomes) <= maxRetries + 1
    /\ (pc = "done" /\ AllAttemptsFailed) =>
        /\ result.resp = NilResp
        /\ result.err # NoErr
        /\ Len(outcomes) = maxRetries + 1 \/ ReturnedOnContext
        /\ ctxErr = "none" => Len(outcomes) = maxRetries + 1

\* C2's case: a POST whose three attempts (maxRetries = 2) all failed, by a
\* status and by transport errors, and Do gave up with the last error.
C2_Witness ==
    /\ pc = "done"
    /\ method = "POST"
    /\ maxRetries = 2
    /\ Len(outcomes) = 3
    /\ Answered(1, 500)
    /\ outcomes[2].kind = "transport"
    /\ outcomes[3].kind = "transport"
    /\ result = [resp |-> NilResp, err |-> TransportErr]
    /\ bodyResets = 2

C4_ReturnsFirstNonRetryable ==
    \A i \in 1..Len(outcomes) :
        (outcomes[i].kind = "status" /\ ~FailedRetryably(i)) =>
            /\ \A j \in 1..(i - 1) : FailedRetryably(j)
            /\ i - 1 <= maxRetries
            /\ pc = "done"
            /\ Len(outcomes) = i
            /\ result = [resp |-> Resp(outcomes[i].code, i), err |-> NoErr]

\* C4's case, as in TestClient_DoRetriesOnServerError: two 500s, then a 200
\* that is returned after exactly three attempts.
C4_Witness ==
    /\ pc = "done"
    /\ maxRetries >= 2
    /\ Len(outcomes) = 3
    /\ Answered(1, 500)
    /\ Answered(2, 500)
    /\ Answered(3, 200)
    /\ result = [resp |-> Resp(200, 3), err |-> NoErr]
    /\ Len(waits) = 2

\* C5: when the request's context was cancelled before Do returned, Do
\* returns no response and an error that is context.Canceled, and no call of
\* httpClient.Do made after the cancellation was answered by the server.
C5_ReturnsCanceled ==
    (pc = "done" /\ ctxErr = "canceled") =>
        /\ result.resp = NilResp
        /\ IsCanceled(result.err)
        /\ outcomes[Len(outcomes)].kind = "ctx" \/ ReturnedOnContext

\* C5's case: the context was cancelled during the backoff wait that followed
\* a 500, with retries left, and Do returned context.Canceled out of the wait.
C5_Witness ==
    /\ pc = "done"
    /\ ctxErr = "canceled"
    /\ Len(outcomes) = 1
    /\ Answered(1, 500)
    /\ attempt < maxRetries
    /\ result = [resp |-> NilResp, err |-> CtxErr("canceled", FALSE)]

----------------------------------------------------------------------------
(* Claims about SnapshotResource.Create, checked under SpecSnapshot.       *)

\* Create has ended, by returning or by a panic.
CreateEnded == sPc \in {"done", "panic"}

\* Create returned without an error diagnostic, its state written.
CreateSucceeded == sPc = "done" /\ diag = "none" /\ tfState.written

\* C6: with wait_for_processed true, Create writes state without an error
\* only after a poll that returned a state equal to PROCESSED up to case, and
\* the state attribute it writes is the state that poll returned.
C6_SuccessOnlyAfterProcessed ==
    /\ (plan.wait = TFBool(TRUE) /\ tfState.written) => CreateSucceeded
    /\ (plan.wait = TFBool(TRUE) /\ CreateSucceeded) =>
        /\ polls >= 1
        /\ lastPoll.ok
        /\ lastPoll.state \in {"PROCESSED", "processed", "Processed"}
        /\ tfState.state = TFStr(lastPoll.state)
        /\ tfState.id = TFStr(created.id)
        /\ waitErr = "nil"

\* C6's case: the create call answered PROCESSING, the first poll did too,
\* the second poll answered "processed", and Create wrote that state.
C6_Witness ==
    /\ plan.wait = TFBool(TRUE)
    /\ CreateSucceeded
    /\ created.state = "PROCESSING"
    /\ polls = 2
    /\ lastPoll.state = "processed"
    /\ tfState.state = TFStr("processed")

\* The last poll, if any, showed the snapshot neither processed nor failed
\* nor gone.
NeverSettled ==
    /\ ~(lastPoll.ok /\ ToLower(lastPoll.state) \in {"processed", "failed"})
    /\ ~lastPoll.err.notFound

\* C7 as stated: once the create call has succeeded and the wait was asked
\* for, a Create that has ended without any poll showing the snapshot
\* processed, failed or gone has returned with "Error waiting for snapshot",
\* from a wait that timed out or whose context ended, and has written no
\* state; the polls made never outnumber the ticks of the interval that have
\* passed, so the first poll comes after one full interval.
C7_WaitEndsInTimeoutError ==
    /\ (plan.wait = TFBool(TRUE) /\ created.ok /\ CreateEnded /\ NeverSettled) =>
        /\ sPc = "done"
        /\ diag = "Error waiting for snapshot"
        /\ waitErr \in {"snapshot processing timed out", "context canceled",
                        "context deadline exceeded"}
        /\ ~tfState.written
    /\ polls * Interval <= clock
    /\ polls > 0 => clock >= Interval

\* C7's case: poll_interval_seconds is 0, the create call succeeded, and
\* Create ended in the panic of time.NewTicker with no diagnostic.
C7_Witness ==
    /\ plan.wait = TFBool(TRUE)
    /\ plan.pollInterval = TFInt(0)
    /\ created.ok
    /\ sPc = "panic"
    /\ diag = "none"
    /\ waitErr = "none"

\* Go's select takes a ready case at random, so a timeout timer that has
\* fired is taken in the end; time passes; Create runs once called.
SpecSnapshotFair ==
    /\ SpecSnapshot
    /\ WF_vars(CreateBegin)
    /\ WF_vars(WaitAdvanceTime)
    /\ WF_vars(WaitTimedOut)

\* C7, its termination: under SpecSnapshotFair every Create ends, by
\* returning or by the panic; no wait polls for ever.
C7_CreateEnds == <>CreateEnded

\* C8 as stated: with wait_for_processed false and a snapshot returned by
\* the create call, Create has made one create call and no poll, no time
\* has passed, and the state written holds the response's id and the
\* response's state, whatever it is.
C8_NoWaitWritesResponseState ==
    (plan.wait = TFBool(FALSE) /\ created.ok /\ CreateEnded) =>
        /\ CreateSucceeded
        /\ creates = 1
        /\ polls = 0
        /\ clock = 0
        /\ tfState.id = TFStr(created.id)
        /\ tfState.state = TFStr(created.state)

\* C8 as amended: as C8, except that a response state that is empty or
\* white space only is written as null.
C8_NoWaitWritesResponseStateOrNull ==
    (plan.wait = TFBool(FALSE) /\ created.ok /\ CreateEnded) =>
        /\ CreateSucceeded
        /\ creates = 1
        /\ polls = 0
        /\ clock = 0
        /\ tfState.id = TFStr(created.id)
        /\ created.state \notin {"", " "} => tfState.state = TFStr(created.state)
        /\ created.state \in {"", " "} => tfState.state = TFNull

\* C8's case, as in TestSnapshotResourceCreate: the create call answered
\* snap-1 in state PROCESSING and Create wrote exactly that, without a poll.
C8_Witness ==
    /\ plan.wait = TFBool(FALSE)
    /\ CreateSucceeded
    /\ created = SnapshotOk("snap-1", "PROCESSING")
    /\ tfState = [written |-> TRUE, id |-> TFStr("snap-1"),
                  state |-> TFStr("PROCESSING")]
    /\ creates = 1
    /\ polls = 0

----------------------------------------------------------------------------
(* Claims about ForwardProvider.Configure, checked under SpecConfigure.    *)

\* The attribute is configured with a non-empty string.
HasValue(v) == ~v.isNull /\ ~v.isUnknown /\ v.value # ""

\* What the claim C9 has Configure use for an attribute: the configured value
\* when it is non-empty, else the environment's.
ExpectedBaseURL ==
    IF HasValue(config.baseURL) THEN config.baseURL.value ELSE env[envBaseURL]

ExpectedNetworkID ==
    IF HasValue(config.networkID) THEN config.networkID.value
    ELSE env[envNetworkID]

ExpectedAPIKey ==
    IF HasValue(config.apiKey) THEN config.apiKey.value
    ELSE IF env[envAPIKeyPrimary] # "" THEN env[envAPIKeyPrimary]
    ELSE env[envAPIKeyLegacy]

C10_OnlyAPIKeyFromEnv ==
    cPc = "done" =>
        /\ envBaseURL \notin envReads
        /\ envNetworkID \notin envReads
        /\ clientConfig.called => clientConfig.baseURL = ValueString(config.baseURL)
        /\ providerData.set =>
              /\ HasValue(config.baseURL)
              /\ HasValue(config.networkID)
              /\ providerData.networkID = ValueString(config.networkID)

\* C10's case: base_url and network_id are unknown when Configure runs, and
\* the provider is configured with FORWARD_BASE_URL and FORWARD_NETWORK_ID.
C10_Witness ==
    /\ cPc = "done"
    /\ config.baseURL = TFUnknown
    /\ config.networkID = TFUnknown
    /\ config.apiKey = TFStr("cfg-key")
    /\ providerData.set
    /\ providerData.client.baseURL = "https://env.example"
    /\ providerData.networkID = "net-env"

----------------------------------------------------------------------------
(* C11: operations without provider data.                                  *)

\* Configure has to reject the resolved values: one of them is empty, or
\* NewClient cannot parse the base URL or finds no scheme in it.
ConfigureRejects ==
    \/ ExpectedBaseURL = ""
    \/ ExpectedAPIKey = ""
    \/ ExpectedNetworkID = ""
    \/ ~URLParses(ExpectedBaseURL)
    \/ URLScheme(ExpectedBaseURL) = ""

UnconfiguredSummaries == {"Unconfigured Provider", "Client Not Configured"}

\* The operations that begin with the check of providerData: every Create
\* and Read, and the Delete of forward_snapshot and forward_intent_check.
ChecksProviderData(t, op) ==
    \/ op \in {"Create", "Read"}
    \/ op = "Delete" /\ t # "forward_nqe_query_definition"

\* C11 as stated: when a resolved value is empty or NewClient rejects the
\* values, Configure adds an error and leaves the provider data unset; and
\* every operation of a resource or data source run without provider data
\* returns the 'Unconfigured Provider' / 'Client Not Configured' error and
\* sends no HTTP request.
C11_EveryOperationUnconfigured ==
    /\ (cPc = "done" /\ ConfigureRejects) => (cDiag # "none" /\ ~providerData.set)
    /\ (hOp # "none" /\ ~rData.set) =>
          /\ hDiag \in UnconfiguredSummaries
          /\ hReqs = 0

\* C11, amended: Configure as stated; without provider data no operation
\* sends an HTTP request; the operations that use the client (every Create
\* and Read, Delete of forward_snapshot and forward_intent_check) return the
\* error and leave the state as it was, while Update, ImportState and the
\* Delete of forward_nqe_query_definition never look at the provider data
\* and return no such error.
C11_ClientOperationsUnconfigured ==
    /\ (cPc = "done" /\ ConfigureRejects) => (cDiag # "none" /\ ~providerData.set)
    /\ (hOp # "none" /\ ~rData.set) =>
          /\ hReqs = 0
          /\ ChecksProviderData(target, hOp) =>
                (hDiag \in UnconfiguredSummaries /\ tfSt = hPrev)
          /\ ~ChecksProviderData(target, hOp) => hDiag \notin UnconfiguredSummaries

\* C11's case: Configure found no API key, and a Read called with a state
\* and without provider data returned the error and sent nothing.
C11_Witness ==
    /\ cPc = "done"
    /\ cDiag = "Missing API Key"
    /\ ~rData.set
    /\ target = "forward_snapshot"
    /\ hOp = "Read"
    /\ hDiag = "Unconfigured Provider"
    /\ tfSt.present
    /\ hReqs = 0

----------------------------------------------------------------------------
(* C12, C13: the typed accessors.                                          *)

\* The accessor got as far as Client.Do and has returned.
AccessorReturned == aPc = "done" /\ aPath # <<>>

\* The statuses C12 lists as accepted.
AcceptedStatuses(acc) ==
    {200} \cup (IF acc = "CreateSnapshot" THEN {201, 202} ELSE {})
          \cup (IF acc = "DeleteSnapshot" THEN {204, 404} ELSE {})

\* C12: when Do hands an accessor a response whose status is outside the
\* accessor's accepted set (200; also 201 and 202 for CreateSnapshot; also
\* 204 and 404 for DeleteSnapshot), the accessor returns a non-nil error and
\* no result; when the status is accepted and the body decodes, it returns
\* a nil error, with the decoded result unless it returns only an error.
C12_StatusMapsToError ==
    (AccessorReturned /\ result.err = NoErr) =>
        /\ result.resp.status \notin AcceptedStatuses(accessor) =>
              (aResult.err # NoAccErr /\ ~aResult.value)
        /\ (result.resp.status \in AcceptedStatuses(accessor) /\ aBody.decodes) =>
              /\ aResult.err = NoAccErr
              /\ aResult.value <=> accessor \notin ErrorOnlyAccessors

\* C12's case: CreateSnapshot answered 202 with a body that decodes returns
\* the snapshot and no error.
C12_Witness ==
    /\ AccessorReturned
    /\ accessor = "CreateSnapshot"
    /\ result.err = NoErr
    /\ result.resp.status = 202
    /\ aBody.decodes
    /\ aResult.value
    /\ aResult.err = NoAccErr

\* C13: DeleteSnapshot sends DELETE /api/snapshots/{id} (the trimmed,
\* escaped identifier), returns nil when the answer is 200, 204 or 404, and
\* when the first attempt is answered with one of these, Do made exactly one
\* request.
C13_DeleteSnapshotIdempotent ==
    (AccessorReturned /\ accessor = "DeleteSnapshot") =>
        /\ method = "DELETE"
        /\ aPath = <<"api", "snapshots", PathEscape(TrimSpace(aArgs.a))>>
        /\ (result.err = NoErr /\ result.resp.status \in {200, 204, 404}) =>
              aResult.err = NoAccErr
        /\ (\E s \in {200, 204, 404} : Answered(1, s)) =>
              (Len(outcomes) = 1 /\ aResult.err = NoAccErr)

\* C13's case: the snapshot is already gone, the server answers 404 to the
\* only request, and DeleteSnapshot returns nil.
C13_Witness ==
    /\ AccessorReturned
    /\ accessor = "DeleteSnapshot"
    /\ aArgs.a = "snap-1"
    /\ outcomes = <<[kind |-> "status", code |-> 404]>>
    /\ aResult.err = NoAccErr

----------------------------------------------------------------------------
(* C14, C15: the forward_intent_checks and forward_nqe_query data sources. *)

\* The data source's Read has just stored a state.
DataSourceRead(t) ==
    /\ target = t
    /\ hOp = "Read"
    /\ hDiag = "none"
    /\ tfSt.present

\* The number of checks the API returned with exactly this status.
ChecksWithStatus(k) ==
    Cardinality({i \in 1..Len(remote.checks) : remote.checks[i].status = k})

\* C14: after a Read of forward_intent_checks, pass_count, fail_count,
\* error_count and timeout_count are the numbers of returned checks whose
\* status is exactly PASS, FAIL, ERROR and TIMEOUT; the four sum to at most
\* the length of checks; and checks holds one item per returned check, in
\* the API's order.
C14_CountsByExactStatus ==
    DataSourceRead("forward_intent_checks") =>
        /\ tfSt.attrs.passCount = ChecksWithStatus("PASS")
        /\ tfSt.attrs.failCount = ChecksWithStatus("FAIL")
        /\ tfSt.attrs.errorCount = ChecksWithStatus("ERROR")
        /\ tfSt.attrs.timeoutCount = ChecksWithStatus("TIMEOUT")
        /\ tfSt.attrs.passCount + tfSt.attrs.failCount + tfSt.attrs.errorCount
             + tfSt.attrs.timeoutCount <= Len(tfSt.attrs.checks)
        /\ Len(tfSt.attrs.checks) = Len(remote.checks)
        /\ \A i \in 1..Len(remote.checks) :
              /\ tfSt.attrs.checks[i].id = TFStr(remote.checks[i].id)
              /\ ValueString(tfSt.attrs.checks[i].status) = remote.checks[i].status

\* C14's case: the API returned a TIMEOUT check and one with the status
\* "pass"; only the first is counted.
C14_Witness ==
    /\ DataSourceRead("forward_intent_checks")
    /\ Len(remote.checks) = 2
    /\ remote.checks[1].status = "TIMEOUT"
    /\ remote.checks[2].status = "pass"
    /\ tfSt.attrs.timeoutCount = 1
    /\ tfSt.attrs.passCount = 0
    /\ Len(tfSt.attrs.checks) = 2

----------------------------------------------------------------------------
(* C16: the requests NewRequest builds.                                    *)

\* The headers C16 names, on the request built.
HeadersAsConfigured ==
    /\ request.authorization = <<"Bearer", nrClient.apiKey>>
    /\ request.userAgent = nrClient.userAgent
    /\ request.accept = "application/json"
    /\ request.contentType = (IF nrArgs.body THEN "application/json" ELSE "")

\* C16 as stated: every request NewRequest builds has the base URL's scheme
\* and host, the base URL's path followed by the request path, the
\* Authorization header 'Bearer <API key>', the configured User-Agent and
\* 'Accept: application/json', and Content-Type application/json exactly
\* when a body is supplied.
C16_TargetsBaseURL ==
    (nrPc = "done" /\ request.built) =>
        /\ request.url.scheme = nrClient.baseURL.scheme
        /\ request.url.host = nrClient.baseURL.host
        /\ request.url.path = nrClient.baseURL.path \o nrArgs.path.segs
        /\ HeadersAsConfigured

\* C16's case: the base URL is https://fwd.example/proxy and the request
\* path /api/version; the request goes to https://fwd.example/api/version.
C16_Witness ==
    /\ nrPc = "done"
    /\ request.built
    /\ nrClient.baseURL.path = <<"proxy">>
    /\ nrArgs.path.rooted
    /\ nrArgs.path.segs = <<"api", "version">>
    /\ request.url.host = "fwd.example"
    /\ request.url.path = <<"api", "version">>

\* What does hold of every request built: scheme, host and headers as
\* configured, and the path as stated when the base URL has no path and the
\* request path is rooted.
C16_HoldsWithoutBasePath ==
    (nrPc = "done" /\ request.built) =>
        /\ request.url.scheme = nrClient.baseURL.scheme
        /\ request.url.host = nrClient.baseURL.host
        /\ HeadersAsConfigured
        /\ (nrClient.baseURL.path = <<>> /\ nrArgs.path.rooted) =>
              request.url.path = nrClient.baseURL.path \o nrArgs.path.segs

----------------------------------------------------------------------------
(* C17: the lookup of forward_nqe_query_definition.                        *)

\* Create or Read of the NQE query resource, called with provider data, has
\* returned.
NqeReturned(op) ==
    target = "forward_nqe_query_definition" /\ hOp = op /\ rData.set

\* The path and repository the operation looked up: the plan's for Create,
\* the prior state's for Read.
LookedUpPath ==
    IF hOp = "Create" THEN ValueString(hIn.plan.path)
    ELSE ValueString(hPrev.attrs.path)

LookedUpRepository ==
    IF hOp = "Create" THEN ValueString(hIn.plan.repository)
    ELSE ValueString(hPrev.attrs.repository)

\* The places of the library entries with exactly the path looked up and,
\* ignoring case, the repository looked up.
MatchingEntries ==
    {i \in 1..Len(remote.library) :
        /\ remote.library[i].path = LookedUpPath
        /\ ToLower(remote.library[i].repository) = ToLower(LookedUpRepository)}

FirstMatchingEntry ==
    remote.library[CHOOSE i \in MatchingEntries : \A j \in MatchingEntries : i <= j]

\* lookupQuery returned the listing's answer: it added no diagnostic of its own.
ListingObtained == hDiag \notin {"Missing Path", "Error listing NQE queries"}

\* C17: Create succeeds only if the listing holds an entry with exactly the
\* configured path and, case-insensitively, the configured repository, and
\* then stores the first such entry's query_id, intent and repository with
\* id equal to query_id; with a listing that holds no such entry, Create
\* fails with 'NQE query not found' and writes no state, and Read removes
\* the resource from the state; after every successful Create or Read
\* id = query_id.
C17_LookupFirstMatch ==
    /\ (NqeReturned("Create") /\ hDiag = "none") =>
          /\ MatchingEntries # {}
          /\ tfSt.present
          /\ tfSt.attrs.queryID = TFStr(FirstMatchingEntry.queryID)
          /\ ValueString(tfSt.attrs.intent) = FirstMatchingEntry.intent
          /\ tfSt.attrs.repository = TFStr(FirstMatchingEntry.repository)
          /\ tfSt.attrs.id = tfSt.attrs.queryID
    /\ (NqeReturned("Create") /\ MatchingEntries = {}) =>
          /\ hDiag # "none"
          /\ ListingObtained => hDiag = "NQE query not found"
          /\ ~tfSt.present
    /\ (NqeReturned("Read") /\ MatchingEntries = {} /\ ListingObtained) =>
          (hDiag = "none" /\ ~tfSt.present)
    /\ (NqeReturned("Read") /\ hDiag = "none" /\ tfSt.present) =>
          /\ MatchingEntries # {}
          /\ tfSt.attrs.queryID = TFStr(FirstMatchingEntry.queryID)
          /\ tfSt.attrs.id = tfSt.attrs.queryID

\* C17's case: the library lists the query under repository "org" before
\* the one under "ORG"; a Create configured with "ORG" stores the first.
C17_Witness ==
    /\ NqeReturned("Create")
    /\ hDiag = "none"
    /\ LookedUpRepository = "ORG"
    /\ Len(remote.library) = 2
    /\ remote.library[1].repository = "org"
    /\ remote.library[2].repository = "ORG"
    /\ remote.library[2].path = "/L3/Example"
    /\ tfSt.attrs.queryID = TFStr("FQ_2")
    /\ tfSt.attrs.id = TFStr("FQ_2")
    /\ tfSt.attrs.repository = TFStr("org")

----------------------------------------------------------------------------
(* C18, C19: Update, and Delete of the NQE query resource.                 *)

\* The configured attributes of a state agree with the remote object: the
\* snapshot's network and note, the check's snapshot and note, and for the
\* NQE query an entry of the library with the state's path and repository.
AgreesWithRemote(st) ==
    CASE target = "forward_snapshot" ->
            /\ remote.exists
            /\ ValueString(st.attrs.networkID) = remote.network
            /\ ValueString(st.attrs.note) = remote.note
      [] target = "forward_intent_check" ->
            /\ remote.exists
            /\ ValueString(st.attrs.snapshotID) = remote.snapshot
            /\ ValueString(st.attrs.note) = remote.note
      [] OTHER ->
            \E i \in 1..Len(remote.library) :
                /\ remote.library[i].path = ValueString(st.attrs.path)
                /\ remote.library[i].repository = ValueString(st.attrs.repository)

\* C18 as stated: an Update of forward_snapshot, forward_intent_check or
\* forward_nqe_query_definition sends no HTTP request and stores the plan as
\* the state, and a state that agreed with the remote object before the
\* Update agrees with it afterwards.
C18_UpdateKeepsAgreement ==
    hOp = "Update" =>
        /\ hReqs = 0
        /\ hDiag = "none"
        /\ tfSt = Stored(hIn.plan)
        /\ AgreesWithRemote(hPrev) => AgreesWithRemote(tfSt)

\* C18's case: the snapshot's note is "n1" in the state and on the server,
\* the configuration changes it to "n2", and Update stores "n2" while the
\* server keeps "n1".
C18_Witness ==
    /\ target = "forward_snapshot"
    /\ hOp = "Update"
    /\ hReqs = 0
    /\ remote.exists
    /\ remote.note = "n1"
    /\ hPrev.attrs.note = TFStr("n1")
    /\ tfSt.attrs.note = TFStr("n2")

\* What does hold of every Update: no request, no diagnostic, and the plan
\* stored as it is, unknown values included.
C18_UpdateStoresPlan ==
    hOp = "Update" =>
        /\ hReqs = 0
        /\ hDiag = "none"
        /\ tfSt = Stored(hIn.plan)

\* C19: every Delete of forward_nqe_query_definition sends no HTTP request,
\* adds no error, drops the resource from the state and leaves the remote
\* library as it was.
C19_DeleteOnlyDropsState ==
    [][(/\ target = "forward_nqe_query_definition"
        /\ hSteps' = hSteps + 1
        /\ hOp' = "Delete")
          => (/\ hReqs' = 0
              /\ hDiag' = "none"
              /\ tfSt.present
              /\ ~tfSt'.present
              /\ remote' = remote)]_vars

\* C19's case: the query of the destroyed resource is still in the library.
C19_Witness ==
    /\ target = "forward_nqe_query_definition"
    /\ hOp = "Delete"
    /\ hReqs = 0
    /\ hDiag = "none"
    /\ ~tfSt.present
    /\ hPrev.attrs.queryID = TFStr("FQ_1")
    /\ \E i \in 1..Len(remote.library) : remote.library[i].queryID = "FQ_1"

----------------------------------------------------------------------------
(* C20: the import ID of forward_snapshot.                                  *)

SnapshotImported ==
    target = "forward_snapshot" /\ hOp = "ImportState"

\* C20: after ImportState of forward_snapshot, an ID that does not split on
\* "/" into exactly two parts has left the error "Invalid import format" and
\* no attribute in the state; any other ID has left no error, network_id set
\* to the first part and id to the second.
C20_ImportIDTwoParts ==
    SnapshotImported =>
        IF Len(Split(hIn.id)) # 2
        THEN /\ hDiag = "Invalid import format"
             /\ ~tfSt.present
             /\ hReqs = 0
        ELSE /\ hDiag = "none"
             /\ tfSt.present
             /\ tfSt.attrs.networkID = TFStr(Split(hIn.id)[1])
             /\ tfSt.attrs.id = TFStr(Split(hIn.id)[2])

\* C20's case: an ID of three parts was refused, the state left without
\* the resource.
C20_Witness ==
    /\ SnapshotImported
    /\ hIn.id = "net-1/snap-1/x"
    /\ hDiag = "Invalid import format"
    /\ ~tfSt.present

\* An ID of two parts was imported.
C20_WitnessAccepted ==
    /\ SnapshotImported
    /\ hIn.id = "net-1/snap-9"
    /\ tfSt.present
    /\ tfSt.attrs.networkID = TFStr("net-1")
    /\ tfSt.attrs.id = TFStr("snap-9")

----------------------------------------------------------------------------
(* C21: the first Read after ImportState.                                   *)

ImportingResources ==
    {"forward_snapshot", "forward_intent_check", "forward_nqe_query_definition"}

\* Read was called with the state ImportState left, by a configured resource.
ReadAfterImport ==
    /\ target \in ImportingResources
    /\ hOp = "Read"
    /\ hIn.after = "ImportState"
    /\ rData.set

\* The server holds the object the import ID names.
ImportedObjectExists ==
    CASE target = "forward_snapshot" ->
            /\ remote.exists
            /\ hPrev.attrs.networkID = TFStr(remote.network)
            /\ hPrev.attrs.id = TFStr(remote.id)
      [] target = "forward_intent_check" ->
            /\ remote.exists
            /\ hPrev.attrs.id = TFStr(remote.id)
      [] target = "forward_nqe_query_definition" ->
            \E i \in 1..Len(remote.library) :
                hPrev.attrs.queryID = TFStr(remote.library[i].queryID)
      [] OTHER -> FALSE

\* The context was not cancelled, and a request the Read sent was answered
\* with 200 and a body that decodes.
ServerAnsweredRead ==
    /\ hIn.ctx = "none"
    /\ hReqs > 0 => /\ hIn.do.err = NoErr
                    /\ hIn.do.resp.status = 200
                    /\ hIn.decodes

\* C21: a Read that follows ImportState of forward_snapshot,
\* forward_intent_check or forward_nqe_query_definition, for an object the
\* server holds and answers for, leaves no error diagnostic and a state.
C21_ReadAfterImportSucceeds ==
    (ReadAfterImport /\ ImportedObjectExists /\ ServerAnsweredRead)
        => (hDiag = "none" /\ tfSt.present)

\* C21's case: forward_intent_check was imported by the ID of a check the
\* server holds; the state had no snapshot_id, so Read sent no request,
\* reported an error and left the imported state.
C21_Witness ==
    /\ ReadAfterImport
    /\ target = "forward_intent_check"
    /\ ImportedObjectExists
    /\ hPrev.attrs.snapshotID = TFNull
    /\ hReqs = 0
    /\ hDiag = "Error reading intent check"
    /\ tfSt = hPrev

\* forward_nqe_query_definition imported by the query_id of a listed query:
\* the state had no path, and Read reported "Missing Path".
C21_WitnessNQE ==
    /\ ReadAfterImport
    /\ target = "forward_nqe_query_definition"
    /\ ImportedObjectExists
    /\ hReqs = 0
    /\ hDiag = "Missing Path"

\* For forward_snapshot the statement holds: network_id and id are both in
\* the imported state.
C21_SnapshotReadAfterImport ==
    (ReadAfterImport /\ target = "forward_snapshot"
        /\ ImportedObjectExists /\ ServerAnsweredRead)
        => (hDiag = "none" /\ tfSt.present /\ hReqs = 1)

C21_WitnessSnapshot ==
    /\ ReadAfterImport
    /\ target = "forward_snapshot"
    /\ ImportedObjectExists
    /\ ServerAnsweredRead
    /\ tfSt.present

----------------------------------------------------------------------------
(* C22: Delete of forward_snapshot and forward_intent_check.                *)

\* Delete of one of the two resources returned, the resource configured.
DeleteReturned ==
    /\ target \in {"forward_snapshot", "forward_intent_check"}
    /\ hOp = "Delete"
    /\ rData.set

\* The DELETE request was sent and answered with a 2xx status.
RemoteDeleteSucceeded ==
    /\ hReqs = 1
    /\ hIn.do.err = NoErr
    /\ hIn.do.resp.status \in {200, 201, 202, 204}

\* The DELETE request was sent and answered with 404.
RemoteReportedAbsent ==
    /\ hReqs = 1
    /\ hIn.do.err = NoErr
    /\ hIn.do.resp.status = 404

\* C22: Delete of forward_snapshot or forward_intent_check leaves no error
\* diagnostic (and so no state) only if the DELETE succeeded or the server
\* answered that the object is absent; after any other failure it leaves an
\* error diagnostic and the state it was called with.
C22_DeleteDropsOnlyOnSuccessOrAbsent ==
    DeleteReturned =>
        /\ hDiag = "none" => (RemoteDeleteSucceeded \/ RemoteReportedAbsent)
        /\ hDiag = "none" => ~tfSt.present
        /\ hDiag # "none" => tfSt = hPrev

\* C22's case: the context of a Delete was cancelled; Delete left no error,
\* Terraform dropped the state, and the server still holds the object.
C22_Witness ==
    /\ DeleteReturned
    /\ hIn.ctx = "canceled"
    /\ IsCanceled(hIn.do.err)
    /\ hDiag = "none"
    /\ hPrev.present
    /\ ~tfSt.present
    /\ remote.exists

\* What holds: without an error diagnostic the DELETE succeeded, or the
\* server answered 404, or the context was cancelled, or the body of an
\* unexpected answer held "not found" or "404"; with one the state is kept.
C22_DeleteDropsAlsoOnCancel ==
    DeleteReturned =>
        /\ hDiag = "none" =>
              \/ RemoteDeleteSucceeded
              \/ RemoteReportedAbsent
              \/ IsCanceled(hIn.do.err)
              \/ hReqs = 1 /\ hIn.do.err = NoErr /\ hIn.text \in {"not found", "404"}
        /\ hDiag = "none" => ~tfSt.present
        /\ hDiag # "none" => tfSt = hPrev

----------------------------------------------------------------------------
(* C23: Read of forward_snapshot and forward_intent_check.                  *)

\* Read of one of the two resources returned, the resource configured.
ReadReturned ==
    /\ target \in {"forward_snapshot", "forward_intent_check"}
    /\ hOp = "Read"
    /\ rData.set

\* The GET request was sent and answered with 404.
ReadReportedNotFound ==
    /\ hReqs = 1
    /\ hIn.do.err = NoErr
    /\ hIn.do.resp.status = 404

\* The GET request was sent and answered with 200 and a body that decodes.
ReadAnswered ==
    /\ hReqs = 1
    /\ hIn.do.err = NoErr
    /\ hIn.do.resp.status = 200
    /\ hIn.decodes

\* The computed attributes of the state are those of the server's object.
ComputedFromRemote ==
    IF target = "forward_snapshot"
    THEN tfSt.attrs.state = stringOrNullValue(remote.state)
    ELSE tfSt.attrs.status = stringOrNull(remote.status)

\* C23: Read of forward_snapshot or forward_intent_check removes the state
\* exactly when the server answered 404; after any other failure it leaves
\* the prior state and an error diagnostic; after an answer it could decode
\* it leaves the computed attributes of the server's object.
C23_ReadRemovesOnlyOn404 ==
    ReadReturned =>
        /\ ~tfSt.present <=> ReadReportedNotFound
        /\ (~ReadReportedNotFound /\ ~ReadAnswered)
              => (tfSt = hPrev /\ hDiag # "none")
        /\ ReadAnswered => (hDiag = "none" /\ tfSt.present /\ ComputedFromRemote)

\* C23's case: the context of a Read of forward_intent_check was cancelled;
\* Read removed the state without an error while the server holds the check.
C23_Witness ==
    /\ ReadReturned
    /\ target = "forward_intent_check"
    /\ hIn.ctx = "canceled"
    /\ IsCanceled(hIn.do.err)
    /\ hPrev.present
    /\ ~tfSt.present
    /\ hDiag = "none"
    /\ remote.exists

\* An answer that is neither 200 nor 404, with a body that reads as not
\* found to the resource: "not found" for both, "404" for the intent check.
ReadBodyReadsNotFound ==
    /\ hReqs = 1
    /\ hIn.do.err = NoErr
    /\ hIn.do.resp.status \notin {200, 404}
    /\ \/ hIn.text = "not found"
       \/ target = "forward_intent_check" /\ hIn.text = "404"

\* What holds: the state is removed exactly on 404, on such a body, and for
\* forward_intent_check on a cancelled context; otherwise a failure leaves
\* the prior state and an error, and a decoded answer the computed attributes.
C23_ReadRemovesAlsoOnCancel ==
    ReadReturned =>
        LET removed == \/ ReadReportedNotFound
                       \/ ReadBodyReadsNotFound
                       \/ target = "forward_intent_check" /\ IsCanceled(hIn.do.err)
                                                          /\ hReqs = 1
        IN
        /\ ~tfSt.present <=> removed
        /\ removed => hDiag = "none"
        /\ (~removed /\ ~ReadAnswered) => (tfSt = hPrev /\ hDiag # "none")
        /\ ReadAnswered => (hDiag = "none" /\ tfSt.present /\ ComputedFromRemote)

----------------------------------------------------------------------------
(* C24: the state SnapshotResource.Create leaves, checked under             *)
(* SpecSnapshot.                                                            *)

\* Create was called and has returned.
CreateReturned == sPc = "done" /\ (creates > 0 \/ diag # "none")

\* The create call succeeded and the wait that followed ended in an error.
WaitFailedAfterCreate ==
    /\ CreateReturned
    /\ created.ok
    /\ waitErr \in {"snapshot processing timed out", "snapshot failed",
                    "snapshot not found", "context canceled",
                    "context deadline exceeded"}

\* C24: when Create of forward_snapshot has returned, the state is written
\* exactly when there is no error diagnostic; when the create call succeeded
\* and the wait failed, there is the error diagnostic, no state, and Create
\* has called nothing but CreateSnapshot once and GetSnapshot (no delete).
C24_StateIffNoErrorAndNoCleanup ==
    /\ CreateReturned => (tfState.written <=> diag = "none")
    /\ WaitFailedAfterCreate =>
          /\ diag = "Error waiting for snapshot"
          /\ ~tfState.written
          /\ creates = 1
          /\ sCalls[1] = "CreateSnapshot"
          /\ \A i \in 2..Len(sCalls) : sCalls[i] = "GetSnapshot"

\* C24's case: the snapshot was created, the wait polled and then timed
\* out, and Create returned with the error and without a state.
C24_Witness ==
    /\ WaitFailedAfterCreate
    /\ waitErr = "snapshot processing timed out"
    /\ polls > 0
    /\ diag = "Error waiting for snapshot"
    /\ ~tfState.written

====
